---- MODULE Spec2Model ----
(***************************************************************************)
(* TON cell data model, Bag-of-Cells codec and lite-server balancer of      *)
(* tonutils-rs (src/tvm/{cell,builder,slice,boc}.rs, liteclient/balancer.rs) *)
(*                                                                         *)
(* Conventions.  Rust Vec<u8> is a sequence of 0..255 (1-based here,       *)
(* 0-based in the source).  Result<T> is a record [ok, err, val].  u64,    *)
(* i64 and usize values that can exceed what a model integer holds are bit *)
(* vectors: functions 0..63 -> {0,1}, bit 0 the least significant.         *)
(* Option<T> is <<>> for None and <<v>> for Some(v).                       *)
(***************************************************************************)
EXTENDS Integers, Sequences, FiniteSets, TLC

VARIABLES
    cell,       \* the Cell the caller holds (Cell API, build(), deserialize_boc)
    other,      \* a second Cell, built another way, to compare with
    builder,    \* CellBuilder state: data, bit_len, references
    slice,      \* Slice state: cell, bit_pos, ref_pos
    boc,        \* a BoC byte stream
    ret,        \* the Result returned by the last call
    op,         \* the last call and its arguments
    env,        \* the build: overflow_checks (debug) or wrapping (release); alloc_ok
    fork,       \* a second Slice, made by clone_from_current
    lb          \* LiteBalancer state: peers, alive and archival sets, stats

vars == <<cell, other, builder, slice, boc, ret, op, env, fork, lb>>

\* ------------------------------------------------------------------ results
Ok(v) == [ok |-> TRUE, err |-> "", val |-> v]
Err(e) == [ok |-> FALSE, err |-> e, val |-> <<>>]
\* The source reports errors as anyhow messages; the model names them by kind.
CapacityExceeded == "CapacityExceeded"
InsufficientData == "InsufficientData"
MalformedStream == "MalformedStream"
UnsupportedFormat == "UnsupportedFormat"
IntegrityError == "IntegrityError"
\* A panic / process abort (index out of range, overflow check, allocation).
Abort == "Abort"

None == <<>>
Some(v) == <<v>>

\* ------------------------------------------------------------ bits and bytes
Byte == 0..255
\* (byte >> idx) & 1
Bit(byte, idx) == (byte \div (2 ^ idx)) % 2
\* byte | (1 << idx)
OrBit(byte, idx) == IF Bit(byte, idx) = 1 THEN byte ELSE byte + 2 ^ idx
ceil8(n) == (n + 7) \div 8
Max2(a, b) == IF a >= b THEN a ELSE b
Repeat(v, n) == [i \in 1..n |-> v]
Zeros(n) == Repeat(0, n)
RECURSIVE Concat(_)
Concat(ss) == IF Len(ss) = 0 THEN <<>> ELSE Head(ss) \o Concat(Tail(ss))
\* bit i (0-based, MSB-first within each byte) of a byte buffer
BitAt(data, i) == Bit(data[(i \div 8) + 1], 7 - (i % 8))
\* the first n bits of a buffer, as a sequence of 0/1
PayloadBits(data, n) == [i \in 1..n |-> BitAt(data, i - 1)]

\* ------------------------------------------------------------------ SHA-256
\* sha2::Sha256 (FIPS 180-4) on a byte sequence.  A 32-bit word is a pair
\* <<high 16 bits, low 16 bits>>.
RECURSIVE XorN(_, _)
XorN(a, b) ==
    IF a = 0 THEN b ELSE IF b = 0 THEN a
    ELSE ((a + b) % 2) + 2 * XorN(a \div 2, b \div 2)
RECURSIVE AndN(_, _)
AndN(a, b) ==
    IF a = 0 \/ b = 0 THEN 0
    ELSE ((a % 2) * (b % 2)) + 2 * AndN(a \div 2, b \div 2)
XorT == [a \in Byte |-> [b \in Byte |-> XorN(a, b)]]
AndT == [a \in Byte |-> [b \in Byte |-> AndN(a, b)]]
Xor16(a, b) == XorT[a \div 256][b \div 256] * 256 + XorT[a % 256][b % 256]
And16(a, b) == AndT[a \div 256][b \div 256] * 256 + AndT[a % 256][b % 256]
WXor(a, b) == <<Xor16(a[1], b[1]), Xor16(a[2], b[2])>>
WAnd(a, b) == <<And16(a[1], b[1]), And16(a[2], b[2])>>
WNot(a) == <<65535 - a[1], 65535 - a[2]>>
WAdd(a, b) ==
    LET lo == a[2] + b[2]
    IN <<(a[1] + b[1] + (lo \div 65536)) % 65536, lo % 65536>>
\* rotate right by n, 0 < n < 32
WRotr(a, n) ==
    LET h == IF n >= 16 THEN a[2] ELSE a[1]
        l == IF n >= 16 THEN a[1] ELSE a[2]
        k == n % 16
        p == 2 ^ k
        q == 2 ^ (16 - k)
    IN IF k = 0 THEN <<h, l>>
       ELSE <<(h \div p) + (l % p) * q, (l \div p) + (h % p) * q>>
\* shift right by n, 0 < n < 32
WShr(a, n) ==
    IF n >= 16 THEN <<0, a[1] \div (2 ^ (n - 16))>>
    ELSE <<a[1] \div (2 ^ n), (a[2] \div (2 ^ n)) + (a[1] % (2 ^ n)) * (2 ^ (16 - n))>>

SHA_K == <<
    <<17034, 12184>>, <<28983, 17553>>, <<46528, 64463>>, <<59829, 56229>>,
    <<14678, 49755>>, <<23025, 4593>>, <<37439, 33444>>, <<43804, 24277>>,
    <<55303, 43672>>, <<4739, 23297>>, <<9265, 34238>>, <<21772, 32195>>,
    <<29374, 23924>>, <<32990, 45566>>, <<39900, 1703>>, <<49563, 61812>>,
    <<58523, 27073>>, <<61374, 18310>>, <<4033, 40390>>, <<9228, 41420>>,
    <<11753, 11375>>, <<19060, 33962>>, <<23728, 43484>>, <<30457, 35034>>,
    <<38974, 20818>>, <<43057, 50797>>, <<45059, 10184>>, <<48985, 32711>>,
    <<50912, 3059>>, <<54695, 37191>>, <<1738, 25425>>, <<5161, 10599>>,
    <<10167, 2693>>, <<11803, 8504>>, <<19756, 28156>>, <<21304, 3347>>,
    <<25866, 29524>>, <<30314, 2747>>, <<33218, 51502>>, <<37490, 11397>>,
    <<41663, 59553>>, <<43034, 26187>>, <<49739, 35696>>, <<51052, 20899>>,
    <<53650, 59417>>, <<54937, 1572>>, <<62478, 13701>>, <<4202, 41072>>,
    <<6564, 49430>>, <<7735, 27656>>, <<10056, 30540>>, <<13488, 48309>>,
    <<14620, 3251>>, <<20184, 43594>>, <<23452, 51791>>, <<26670, 28659>>,
    <<29839, 33518>>, <<30885, 25455>>, <<33992, 30740>>, <<36039, 520>>,
    <<37054, 65530>>, <<42064, 27883>>, <<48889, 41975>>, <<50801, 30962>> >>

SHA_H0 == <<
    <<27145, 58983>>, <<47975, 44677>>, <<15470, 62322>>, <<42319, 62778>>,
    <<20750, 21119>>, <<39685, 26764>>, <<8067, 55723>>, <<23520, 52505>> >>

\* message padding: 0x80, zeros, 64-bit big-endian bit length
ShaPad(m) ==
    LET l == Len(m)
        bits == l * 8
    IN m \o <<128>> \o Zeros((55 - l) % 64) \o <<0, 0, 0, 0>>
         \o [i \in 1..4 |-> (bits \div (256 ^ (4 - i))) % 256]

RECURSIVE ShaSchedule(_, _)
ShaSchedule(w, t) ==
    IF w # <<>> /\ t > 64 THEN w
    ELSE LET a == w[t - 15]
             b == w[t - 2]
             s0 == WXor(WXor(WRotr(a, 7), WRotr(a, 18)), WShr(a, 3))
             s1 == WXor(WXor(WRotr(b, 17), WRotr(b, 19)), WShr(b, 10))
         IN ShaSchedule(Append(w, WAdd(WAdd(w[t - 16], s0), WAdd(w[t - 7], s1))), t + 1)

RECURSIVE ShaRounds(_, _, _)
ShaRounds(s, w, t) ==
    IF s # <<>> /\ t > 64 THEN s
    ELSE LET a == s[1]
             b == s[2]
             c == s[3]
             d == s[4]
             e == s[5]
             f == s[6]
             g == s[7]
             h == s[8]
             S1 == WXor(WXor(WRotr(e, 6), WRotr(e, 11)), WRotr(e, 25))
             ch == WXor(WAnd(e, f), WAnd(WNot(e), g))
             t1 == WAdd(WAdd(WAdd(h, S1), WAdd(ch, SHA_K[t])), w[t])
             S0 == WXor(WXor(WRotr(a, 2), WRotr(a, 13)), WRotr(a, 22))
             maj == WXor(WXor(WAnd(a, b), WAnd(a, c)), WAnd(b, c))
             t2 == WAdd(S0, maj)
         IN ShaRounds(<<WAdd(t1, t2), a, b, c, WAdd(d, t1), e, f, g>>, w, t + 1)

ShaBlock(h, blk) ==
    LET w0 == [i \in 1..16 |-> <<blk[4 * i - 3] * 256 + blk[4 * i - 2],
                                 blk[4 * i - 1] * 256 + blk[4 * i]>>]
        r == ShaRounds(h, ShaSchedule(w0, 17), 1)
    IN [i \in 1..8 |-> WAdd(h[i], r[i])]

RECURSIVE ShaBlocks(_, _)
ShaBlocks(h, p) ==
    IF h # <<>> /\ Len(p) = 0 THEN h
    ELSE ShaBlocks(ShaBlock(h, SubSeq(p, 1, 64)), SubSeq(p, 65, Len(p)))

Sha256(m) ==
    LET h == ShaBlocks(SHA_H0, ShaPad(m))
    IN [i \in 1..32 |->
          LET wd == h[((i - 1) \div 4) + 1]
              k == (i - 1) % 4
          IN IF k = 0 THEN wd[1] \div 256
             ELSE IF k = 1 THEN wd[1] % 256
             ELSE IF k = 2 THEN wd[2] \div 256
             ELSE wd[2] % 256]

\* hasher.finalize(): the 32 bytes of a digest kept as an application
RECURSIVE digest_bytes(_)
digest_bytes(h) ==
    Sha256(h.msg \o Concat([i \in 1..Len(h.sub) |-> digest_bytes(h.sub[i])]))

\* --------------------------------------------------------------------- Cell
MAX_CELL_BITS == 1023
MAX_CELL_REFS == 4

Cell_new ==
    [data |-> <<>>, bit_len |-> 0, references |-> <<>>, is_exotic |-> FALSE,
     level |-> 0, hash |-> None, depth |-> None]

\* with_data with required_bytes rounded down instead of up
with_data_floor(data, bit_len) ==
    IF bit_len > MAX_CELL_BITS THEN Err(CapacityExceeded)
    ELSE IF Len(data) < bit_len \div 8 THEN Err(InsufficientData)
    ELSE Ok([data |-> data, bit_len |-> bit_len, references |-> <<>>,
             is_exotic |-> FALSE, level |-> 0, hash |-> None, depth |-> None])

with_data(data, bit_len) ==
    IF bit_len > MAX_CELL_BITS THEN Err(CapacityExceeded)
    ELSE IF Len(data) < ceil8(bit_len) THEN Err(InsufficientData)
    ELSE Ok([data |-> data, bit_len |-> bit_len, references |-> <<>>,
             is_exotic |-> FALSE, level |-> 0, hash |-> None, depth |-> None])

RECURSIVE MaxLevel(_)
MaxLevel(refs) ==
    IF Len(refs) = 0 THEN 0 ELSE Max2(Head(refs).level, MaxLevel(Tail(refs)))

update_level(c) ==
    IF c.is_exotic THEN c ELSE [c EXCEPT !.level = MaxLevel(c.references)]

\* descriptors with the data length counted as 2 * ceil(bits / 8)
descriptors_ceil(c) ==
    << (Len(c.references) + (IF c.is_exotic THEN 8 ELSE 0) + c.level * 32) % 256,
       (2 * ceil8(c.bit_len)) % 256 >>

descriptors(c) ==
    << (Len(c.references) + (IF c.is_exotic THEN 8 ELSE 0) + c.level * 32) % 256,
       ((c.bit_len \div 8) + ceil8(c.bit_len)) % 256 >>

serialize_data(c) ==
    IF c.bit_len % 8 # 0 /\ (c.bit_len \div 8) < Len(c.data)
    THEN [c.data EXCEPT ![(c.bit_len \div 8) + 1] = OrBit(@, 7 - (c.bit_len % 8))]
    ELSE c.data

RECURSIVE depth(_)
depth(c) ==
    IF c.depth # None THEN c.depth[1]
    ELSE IF Len(c.references) = 0 THEN 0
    ELSE LET RECURSIVE MaxDepth(_)
             MaxDepth(refs) ==
                 IF Len(refs) = 0 THEN 0
                 ELSE Max2(depth(Head(refs)), MaxDepth(Tail(refs)))
         IN MaxDepth(c.references) + 1

\* u16::to_be_bytes
to_be_bytes16(d) == << (d \div 256) % 256, d % 256 >>

\* What Cell::hash feeds the hasher, before finalize(): the bytes of the
\* descriptors, the data and the reference depths, then the digests of the
\* references.  A digest is kept as this unevaluated SHA-256 application (msg
\* followed by the digests in sub); digest_bytes below evaluates it to the 32
\* bytes.  Equal applications are equal digests; distinct applications are
\* distinct digests unless SHA-256 collides.
RECURSIVE hash(_)
hash(c) ==
    IF c.hash # None THEN c.hash[1]
    ELSE [msg |-> descriptors(c) \o serialize_data(c)
                  \o Concat([i \in 1..Len(c.references) |->
                                to_be_bytes16(depth(c.references[i]))]),
          sub |-> [i \in 1..Len(c.references) |-> hash(c.references[i])]]

\* add_reference that leaves the hash and depth of the cell before the push in
\* the cache
add_reference_stale(c, r) ==
    IF Len(c.references) >= MAX_CELL_REFS
    THEN Err(CapacityExceeded)
    ELSE Ok(update_level([c EXCEPT !.references = Append(@, r),
                                   !.hash = Some(hash(c)),
                                   !.depth = Some(depth(c))]))

\* add_reference without the limit on the number of references
add_reference_unbounded(c, r) ==
    Ok(update_level([c EXCEPT !.references = Append(c.references, r),
                              !.hash = None,
                              !.depth = None]))

\* add_reference(&mut self, cell): val is the cell after the call
add_reference(c, r) ==
    IF Len(c.references) >= MAX_CELL_REFS THEN Err(CapacityExceeded)
    ELSE Ok(update_level([c EXCEPT !.references = Append(c.references, r),
                                   !.hash = None,
                                   !.depth = None]))

reference_count(c) == Len(c.references)

\* -------------------------------------------------- 64-bit values (u64, i64)
\* A 64-bit value is a function 0..63 -> {0,1}; bit 0 is the least significant.
\* An i64 is its two's-complement bit pattern (`value as u64`).
U64_BITS == 64
BV(n) == [k \in 0..63 |-> IF k < 31 THEN (n \div (2 ^ k)) % 2 ELSE 0]
BVZero == [k \in 0..63 |-> 0]
BVOnes == [k \in 0..63 |-> 1]
\* a << n and a >> n for 0 <= n < 64 (bits shifted out are lost)
BVShl(a, n) == [k \in 0..63 |-> IF k >= n THEN a[k - n] ELSE 0]
BVShr(a, n) == [k \in 0..63 |-> IF k + n <= 63 THEN a[k + n] ELSE 0]
BVOr(a, b) == [k \in 0..63 |-> IF a[k] = 1 \/ b[k] = 1 THEN 1 ELSE 0]
BVAnd(a, b) == [k \in 0..63 |-> IF a[k] = 1 /\ b[k] = 1 THEN 1 ELSE 0]
\* (1u64 << n) - 1 for 0 <= n < 64
BVLowOnes(n) == [k \in 0..63 |-> IF k < n THEN 1 ELSE 0]
\* byte as u64
BVByte(b) == [k \in 0..63 |-> IF k < 8 THEN Bit(b, k) ELSE 0]
\* value < 0 for an i64
BVNegative(a) == a[63] = 1
\* the value as a model integer, when it is below 2^31
BVSmall(a) == \A k \in 31..63 : a[k] = 0
RECURSIVE BVNatFrom(_, _)
BVNatFrom(a, k) == IF k > 30 THEN 0 ELSE a[k] + 2 * BVNatFrom(a, k + 1)
BVNat(a) == BVNatFrom(a, 0)
\* The shift amount of `x << n` on a u64: with overflow checks (debug builds)
\* n >= 64 panics; without them (release builds) the amount is taken mod 64.
ShiftOverflows(n) == n >= U64_BITS
ShiftAmount(n) == n % U64_BITS

\* -------------------------------------------------------------- CellBuilder
\* The result of a call on a mutable receiver: self is the receiver after it.
Done(self, v) == [ok |-> TRUE, err |-> "", val |-> v, self |-> self]
Fail(self, e) == [ok |-> FALSE, err |-> e, val |-> <<>>, self |-> self]

CellBuilder_new == [data |-> <<>>, bit_len |-> 0, references |-> <<>>]

\* One target byte of store_bits' loop: byte t (0-based) of self.data after the
\* n source bits were appended at bit position b.bit_len one by one.
store_bits_byte(b, bits, n, t) ==
    LET old == IF t < Len(b.data) THEN b.data[t + 1] ELSE 0
        \* the bit written at position p of the cell, if the loop writes one
        put(k) == LET p == 8 * t + k
                      i == p - b.bit_len
                  IN IF i >= 0 /\ i < n /\ BitAt(bits, i) = 1 /\ Bit(old, 7 - k) = 0
                     THEN 2 ^ (7 - k) ELSE 0
    IN old + put(0) + put(1) + put(2) + put(3) + put(4) + put(5) + put(6) + put(7)

store_bits(b, bits, bit_len) ==
    IF b.bit_len + bit_len > MAX_CELL_BITS THEN Fail(b, CapacityExceeded)
    ELSE IF Len(bits) < ceil8(bit_len) THEN Fail(b, InsufficientData)
    ELSE LET newlen == IF bit_len = 0 THEN Len(b.data)
                       ELSE Max2(Len(b.data), ceil8(b.bit_len + bit_len))
         IN Done([b EXCEPT !.data = [t \in 1..newlen |->
                                        store_bits_byte(b, bits, bit_len, t - 1)],
                           !.bit_len = b.bit_len + bit_len], <<>>)

store_byte(b, byte) == store_bits(b, <<byte>>, 8)
store_bytes(b, bytes) == store_bits(b, bytes, Len(bytes) * 8)
store_bit(b, bit) == store_bits(b, <<IF bit THEN 128 ELSE 0>>, 1)

\* the temp buffer of store_uint: the low `bits` bits of value, MSB first
store_uint_temp(value, bits) ==
    [j \in 1..ceil8(bits) |->
        LET put(k) == LET i == 8 * (j - 1) + k
                      IN IF i < bits /\ value[bits - 1 - i] = 1 THEN 2 ^ (7 - k) ELSE 0
        IN put(0) + put(1) + put(2) + put(3) + put(4) + put(5) + put(6) + put(7)]

store_uint(b, value, bits) ==
    IF bits > 64 THEN Fail(b, CapacityExceeded)
    ELSE store_bits(b, store_uint_temp(value, bits), bits)

store_reference(b, c) ==
    IF Len(b.references) >= MAX_CELL_REFS THEN Fail(b, CapacityExceeded)
    ELSE Done([b EXCEPT !.references = Append(b.references, c)], <<>>)

RECURSIVE add_references(_, _)
add_references(r, refs) ==
    IF ~r.ok \/ Len(refs) = 0 THEN r
    ELSE add_references(add_reference(r.val, Head(refs)), Tail(refs))

\* CellBuilder::build and Builder::build
build(b) == add_references(with_data(b.data, b.bit_len), b.references)

\* ------------------------------------------------------------------ Builder
\* Builder wraps a CellBuilder; its state is the inner builder's.
\* overflow_checks: whether the build panics on arithmetic overflow.
store_int(b, value, bits, overflow_checks) ==
    IF bits > 64 THEN Fail(b, CapacityExceeded)
    ELSE IF BVNegative(value)
    THEN IF ShiftOverflows(bits) /\ overflow_checks THEN Fail(b, Abort)
         ELSE store_uint(b, BVAnd(value, BVLowOnes(ShiftAmount(bits))), bits)
    ELSE store_uint(b, value, bits)

\* -------------------------------------------------------------------- Slice
Slice_new(c) == [cell |-> c, bit_pos |-> 0, ref_pos |-> 0]
sat_sub(a, b) == IF a >= b THEN a - b ELSE 0
remaining_bits(s) == sat_sub(s.cell.bit_len, s.bit_pos)
remaining_refs(s) == sat_sub(Len(s.cell.references), s.ref_pos)

load_bit(s) ==
    IF remaining_bits(s) = 0 THEN Fail(s, MalformedStream)
    ELSE IF s.bit_pos \div 8 >= Len(s.cell.data) THEN Fail(s, MalformedStream)
    ELSE Done([s EXCEPT !.bit_pos = @ + 1], BitAt(s.cell.data, s.bit_pos) = 1)

\* load_bits calls load_bit n times; a call fails when its bit lies past the
\* data buffer, and the bits loaded before it stay consumed.
load_bits(s, n) ==
    LET avail == sat_sub(8 * Len(s.cell.data), s.bit_pos)
    IN IF n > remaining_bits(s) THEN Fail(s, MalformedStream)
       ELSE IF n > avail THEN Fail([s EXCEPT !.bit_pos = @ + avail], MalformedStream)
       ELSE Done([s EXCEPT !.bit_pos = @ + n],
                 [j \in 1..ceil8(n) |->
                    LET put(k) == LET i == 8 * (j - 1) + k
                                  IN IF i < n /\ BitAt(s.cell.data, s.bit_pos + i) = 1
                                     THEN 2 ^ (7 - k) ELSE 0
                    IN put(0) + put(1) + put(2) + put(3) + put(4) + put(5) + put(6) + put(7)])

\* result |= (byte as u64) << shift, over the bytes in order
RECURSIVE load_uint_or(_, _, _)
load_uint_or(bytes, i, result) ==
    IF i > Len(bytes) THEN result
    ELSE load_uint_or(bytes, i + 1,
                      BVOr(result, BVShl(BVByte(bytes[i]), (Len(bytes) - i) * 8)))

\* load_uint without the adjustment for a partial last byte
load_uint_unadjusted(s, bits) ==
    IF bits > 64 THEN Fail(s, MalformedStream)
    ELSE IF bits = 0 THEN Done(s, BVZero)
    ELSE LET r == load_bits(s, bits)
         IN IF ~r.ok THEN r
            ELSE Done(r.self, load_uint_or(r.val, 1, BVZero))

load_uint(s, bits) ==
    IF bits > 64 THEN Fail(s, MalformedStream)
    ELSE IF bits = 0 THEN Done(s, BVZero)
    ELSE LET r == load_bits(s, bits)
         IN IF ~r.ok THEN r
            ELSE Done(r.self, BVShr(load_uint_or(r.val, 1, BVZero),
                                    Len(r.val) * 8 - bits))

load_int(s, bits, overflow_checks) ==
    IF bits > 64 THEN Fail(s, MalformedStream)
    ELSE IF bits = 0 THEN Done(s, BVZero)
    ELSE LET r == load_uint(s, bits)
         IN IF ~r.ok THEN r
            ELSE IF r.val[bits - 1] = 1
            THEN IF ShiftOverflows(bits) /\ overflow_checks THEN Fail(r.self, Abort)
                 ELSE Done(r.self, BVOr(r.val, BVShl(BVOnes, ShiftAmount(bits))))
            ELSE r

\* skip_bits that takes n as the new position
skip_bits_absolute(s, n) ==
    IF n > remaining_bits(s) THEN Fail(s, MalformedStream)
    ELSE Done([s EXCEPT !.bit_pos = n], <<>>)

skip_bits(s, n) ==
    IF n > remaining_bits(s) THEN Fail(s, MalformedStream)
    ELSE Done([s EXCEPT !.bit_pos = @ + n], <<>>)

\* skip_refs without the check against remaining_refs()
skip_refs_unchecked(s, n) == Done([s EXCEPT !.ref_pos = @ + n], <<>>)

skip_refs(s, n) ==
    IF n > remaining_refs(s) THEN Fail(s, MalformedStream)
    ELSE Done([s EXCEPT !.ref_pos = @ + n], <<>>)

\* ------------------------------------------------------------------- CRC-32
\* crate::crc::CRC32 = Crc::<u32>::new(&CRC_32_ISO_HDLC): reflected polynomial
\* 0xEDB88320, initial value and final xor 0xFFFFFFFF, byte-wise table lookup.
CRC_POLY == <<60856, 33568>>
RECURSIVE crc_table_entry(_, _)
crc_table_entry(c, k) ==
    IF c # <<>> /\ k = 0 THEN c
    ELSE crc_table_entry(IF c[2] % 2 = 1 THEN WXor(WShr(c, 1), CRC_POLY) ELSE WShr(c, 1),
                         k - 1)
CRC_TABLE == [i \in Byte |-> crc_table_entry(<<0, i>>, 8)]
RECURSIVE crc_update(_, _, _)
crc_update(crc, bytes, i) ==
    IF crc # <<>> /\ i > Len(bytes) THEN crc
    ELSE crc_update(WXor(CRC_TABLE[XorT[crc[2] % 256][bytes[i]]], WShr(crc, 8)),
                    bytes, i + 1)
\* a checksum that covers only the length of the input
checksum_of_len(bytes) == <<0, Len(bytes)>>

checksum(bytes) == WNot(crc_update(<<65535, 65535>>, bytes, 1))
\* u32::to_le_bytes and u32::from_le_bytes
to_le_bytes32(w) == <<w[2] % 256, w[2] \div 256, w[1] % 256, w[1] \div 256>>
from_le_bytes32(b) == <<b[4] * 256 + b[3], b[2] * 256 + b[1]>>

\* ------------------------------------------------------------ usize in a BoC
\* a > n and a >= n for a usize a and a small n
BVGreater(a, n) == ~BVSmall(a) \/ BVNat(a) > n
BVAtLeast(a, n) == ~BVSmall(a) \/ BVNat(a) >= n
\* a + b for a small a and a usize b: the wrapped sum and whether it overflowed
usize_add(a, b) ==
    LET lo == BVNat([k \in 0..63 |-> IF k < 24 THEN b[k] ELSE 0]) + a
        carry == lo \div (2 ^ 24)
        ripple(k) == carry = 1 /\ \A j \in 24..(k - 1) : b[j] = 1
    IN [value |-> [k \in 0..63 |->
                      IF k < 24 THEN (lo \div (2 ^ k)) % 2
                      ELSE IF ripple(k) THEN 1 - b[k] ELSE b[k]],
        overflow |-> ripple(64)]
\* the smallest n for which n * size_of::<Vec<usize>>() (24 bytes) exceeds
\* isize::MAX: 0x0555555555555556
CAPACITY_LIMIT ==
    [k \in 0..63 |->
        IF k > 58 \/ k = 0 \/ k = 3 THEN 0
        ELSE IF k = 1 \/ k = 2 THEN 1
        ELSE IF k % 2 = 0 THEN 1 ELSE 0]
BVGe(a, b) ==
    a = b \/ \E k \in 0..63 : a[k] = 1 /\ b[k] = 0 /\ \A j \in (k + 1)..63 : a[j] = b[j]

\* ---------------------------------------------------------------- BoC codec
BOC_GENERIC_MAGIC == <<181, 238, 156, 114>>
BOC_INDEXED_MAGIC == <<104, 255, 101, 243>>
BOC_INDEXED_CRC32C_MAGIC == <<172, 195, 167, 40>>

Or8(a, b) == a + b - AndT[a][b]
\* usize::BITS - value.leading_zeros()
RECURSIVE bit_length(_)
bit_length(v) == IF v = 0 THEN 0 ELSE 1 + bit_length(v \div 2)
bytes_needed(value) == IF value = 0 THEN 1 ELSE ceil8(bit_length(value))
\* the last `size` bytes of value.to_be_bytes()
write_uint(value, size) == [i \in 1..size |-> (value \div (256 ^ (size - i))) % 256]

cell_hash(c) == hash(c)

\* acc is the pair of `cells` and the keys of `visited`
RECURSIVE collect_cells_recursive(_, _)
RECURSIVE collect_references(_, _)
collect_references(refs, acc) ==
    IF Len(refs) = 0 THEN acc
    ELSE collect_references(Tail(refs), collect_cells_recursive(Head(refs), acc))
\* collect_cells_recursive that adds the cell before it visits the references
collect_cells_preorder(c, acc) ==
    IF cell_hash(c) \in acc.visited THEN acc
    ELSE collect_references(c.references,
                            [cells |-> Append(acc.cells, c),
                             visited |-> acc.visited \cup {cell_hash(c)}])

collect_cells_recursive(c, acc) ==
    IF cell_hash(c) \in acc.visited THEN acc
    ELSE LET a == collect_references(c.references, acc)
         IN [cells |-> Append(a.cells, c), visited |-> a.visited \cup {cell_hash(c)}]
collect_cells(root) == collect_cells_recursive(root, [cells |-> <<>>, visited |-> {}]).cells

\* cell_map is the sequence of hashes inserted so far; a hash maps to the
\* (0-based) index it was last inserted with
cell_map_get(cell_map, h) ==
    LET js == {j \in 1..Len(cell_map) : cell_map[j] = h}
    IN IF js = {} THEN None ELSE Some((CHOOSE j \in js : \A k \in js : k <= j) - 1)

serialize_cell(c, cell_map) ==
    LET idx == [i \in 1..Len(c.references) |-> cell_map_get(cell_map, cell_hash(c.references[i]))]
    IN IF \E i \in 1..Len(idx) : idx[i] = None THEN Err(MalformedStream)
       ELSE Ok(descriptors(c) \o serialize_data(c)
               \o [i \in 1..Len(idx) |-> idx[i][1] % 256])

serialize_boc(root, has_crc32) ==
    LET cells == collect_cells(root)
        root_index == (CHOOSE j \in 1..Len(cells) :
                          /\ cell_hash(cells[j]) = cell_hash(root)
                          /\ \A k \in 1..(j - 1) : cell_hash(cells[k]) # cell_hash(root)) - 1
        serialized_cells ==
            [idx \in 1..Len(cells) |->
                serialize_cell(cells[idx], [j \in 1..idx |-> cell_hash(cells[j])])]
        records == Concat([idx \in 1..Len(cells) |-> serialized_cells[idx].val])
        cells_size == Len(records)
        size_bytes == bytes_needed(Len(cells))
        offset_bytes == bytes_needed(cells_size)
        flags == IF has_crc32 THEN 64 ELSE 0
        result == BOC_GENERIC_MAGIC
                  \o <<Or8(flags, size_bytes % 256), offset_bytes % 256>>
                  \o write_uint(Len(cells), size_bytes)
                  \o write_uint(1, size_bytes)
                  \o write_uint(0, size_bytes)
                  \o write_uint(cells_size, offset_bytes)
                  \o write_uint(root_index, size_bytes)
                  \o records
    IN IF \E idx \in 1..Len(cells) : ~serialized_cells[idx].ok THEN Err(MalformedStream)
       ELSE Ok(IF has_crc32 THEN result \o to_le_bytes32(checksum(result)) ELSE result)

\* read_uint: val is the value read and the position after it
RECURSIVE read_uint_loop(_, _, _, _)
read_uint_loop(result, data, pos, n) ==
    IF n = 0 THEN result
    ELSE read_uint_loop(BVOr(BVShl(result, 8), BVByte(data[pos + 1])), data, pos + 1, n - 1)
read_uint(data, pos, size) ==
    IF pos + size > Len(data) THEN Err(MalformedStream)
    ELSE Ok([value |-> read_uint_loop(BVZero, data, pos, size), pos |-> pos + size])

\* the padding-marker scan of parse_cells: 8 - i for the lowest set bit i of
\* the last byte, 0 if the byte is 0
bits_in_last_byte(last_byte) ==
    IF last_byte = 0 THEN 0
    ELSE 8 - (CHOOSE i \in 0..7 :
                 Bit(last_byte, i) = 1 /\ \A j \in 0..(i - 1) : Bit(last_byte, j) = 0)

parsed_bit_len(d2, cell_data) ==
    LET data_size == Len(cell_data)
    IN IF data_size > 0 /\ d2 > 0
       THEN IF d2 % 2 = 0 THEN (d2 \div 2) * 8
            ELSE LET n == bits_in_last_byte(cell_data[data_size])
                 IN IF n > 0 THEN (data_size - 1) * 8 + n - 1 ELSE data_size * 8
       ELSE 0

\* one iteration of the first pass of parse_cells, at position pos (0-based)
parse_cell_record(data, pos) ==
    IF pos >= Len(data) \/ pos + 1 >= Len(data) THEN Err(MalformedStream)
    ELSE LET d1 == data[pos + 1]
             d2 == data[pos + 2]
             ref_count == d1 % 8
             data_size == (d2 + 1) \div 2
             p == pos + 2
         IN IF p + data_size > Len(data) THEN Err(MalformedStream)
            ELSE IF p + data_size + ref_count > Len(data) THEN Err(MalformedStream)
            ELSE LET cell_data == SubSeq(data, p + 1, p + data_size)
                     refs == SubSeq(data, p + data_size + 1, p + data_size + ref_count)
                     c == with_data(cell_data, parsed_bit_len(d2, cell_data))
                 IN IF ~c.ok THEN c
                    ELSE Ok([cell |-> c.val, refs |-> refs, pos |-> p + data_size + ref_count])

RECURSIVE parse_first_pass(_, _, _, _, _, _)
parse_first_pass(data, count, i, pos, cells, cell_refs) ==
    IF ~BVGreater(count, i) THEN Ok([cells |-> cells, cell_refs |-> cell_refs])
    ELSE LET r == parse_cell_record(data, pos)
         IN IF ~r.ok THEN r
            ELSE parse_first_pass(data, count, i + 1, r.val.pos,
                                  Append(cells, r.val.cell), Append(cell_refs, r.val.refs))

\* add_indexed_references that wraps an index past the end of cells
RECURSIVE add_indexed_references_wrapping(_, _, _)
add_indexed_references_wrapping(r, refs, cells) ==
    IF ~r.ok \/ Len(refs) = 0 THEN r
    ELSE add_indexed_references_wrapping(
             add_reference(r.val, cells[(Head(refs) % Len(cells)) + 1]), Tail(refs), cells)

RECURSIVE add_indexed_references(_, _, _)
add_indexed_references(r, refs, cells) ==
    IF ~r.ok \/ Len(refs) = 0 THEN r
    ELSE IF Head(refs) >= Len(cells) THEN Err(MalformedStream)
    ELSE add_indexed_references(add_reference(r.val, cells[Head(refs) + 1]), Tail(refs), cells)

\* the second pass of parse_cells, from cell i (1-based) on
RECURSIVE resolve_references(_, _, _)
resolve_references(cells, cell_refs, i) ==
    IF i > Len(cells) THEN Ok(cells)
    ELSE IF Len(cell_refs[i]) = 0 THEN resolve_references(cells, cell_refs, i + 1)
    ELSE LET r == add_indexed_references(with_data(cells[i].data, cells[i].bit_len),
                                         cell_refs[i], cells)
         IN IF ~r.ok THEN r
            ELSE resolve_references([cells EXCEPT ![i] = r.val], cell_refs, i + 1)

\* Vec::with_capacity(count) panics when the requested bytes exceed isize::MAX
\* and aborts when the allocator refuses the request (e.alloc_ok says whether
\* it grants a request of 2^31 or more entries).
parse_cells(data, count, e) ==
    IF BVGe(count, CAPACITY_LIMIT) THEN Err(Abort)
    ELSE IF ~BVSmall(count) /\ ~e.alloc_ok THEN Err(Abort)
    ELSE LET f == parse_first_pass(data, count, 0, 0, <<>>, <<>>)
         IN IF ~f.ok THEN f ELSE resolve_references(f.val.cells, f.val.cell_refs, 1)

deserialize_boc_generic(data, e) ==
    IF 4 >= Len(data) THEN Err(MalformedStream)
    ELSE LET flags_and_size == data[5]
             has_crc32 == Bit(flags_and_size, 6) = 1
             size_bytes == flags_and_size % 8
         IN
    IF size_bytes = 0 \/ size_bytes > 8 THEN Err(MalformedStream)
    ELSE IF 5 >= Len(data) THEN Err(MalformedStream)
    ELSE LET offset_bytes == data[6] IN
    IF offset_bytes = 0 \/ offset_bytes > 8 THEN Err(MalformedStream)
    ELSE LET cells_count == read_uint(data, 6, size_bytes) IN
    IF ~cells_count.ok THEN cells_count
    ELSE LET roots_count == read_uint(data, cells_count.val.pos, size_bytes) IN
    IF ~roots_count.ok THEN roots_count
    ELSE IF roots_count.val.value # BV(1) THEN Err(MalformedStream)
    ELSE LET absent_count == read_uint(data, roots_count.val.pos, size_bytes) IN
    IF ~absent_count.ok THEN absent_count
    ELSE LET cells_size == read_uint(data, absent_count.val.pos, offset_bytes) IN
    IF ~cells_size.ok THEN cells_size
    ELSE LET root_idx == read_uint(data, cells_size.val.pos, size_bytes) IN
    IF ~root_idx.ok THEN root_idx
    ELSE LET cells_start == root_idx.val.pos
             sum == usize_add(cells_start, cells_size.val.value)
             cells_end == sum.value
         IN
    IF sum.overflow /\ e.overflow_checks THEN Err(Abort)
    ELSE IF BVGreater(cells_end, Len(data) - (IF has_crc32 THEN 4 ELSE 0))
         THEN Err(MalformedStream)
    ELSE IF cells_start > BVNat(cells_end) THEN Err(Abort)
    ELSE LET cells == parse_cells(SubSeq(data, cells_start + 1, BVNat(cells_end)),
                                  cells_count.val.value, e)
         IN
    IF ~cells.ok THEN cells
    ELSE IF has_crc32 /\ Len(data) < BVNat(cells_end) + 4 THEN Err(MalformedStream)
    ELSE IF has_crc32 /\ from_le_bytes32(SubSeq(data, BVNat(cells_end) + 1, BVNat(cells_end) + 4))
                         # checksum(SubSeq(data, 1, BVNat(cells_end)))
         THEN Err(IntegrityError)
    ELSE IF BVAtLeast(root_idx.val.value, Len(cells.val)) THEN Err(MalformedStream)
    ELSE Ok(cells.val[BVNat(root_idx.val.value) + 1])

deserialize_boc(data, e) ==
    IF Len(data) < 4 THEN Err(MalformedStream)
    ELSE LET magic == SubSeq(data, 1, 4)
         IN IF magic = BOC_GENERIC_MAGIC THEN deserialize_boc_generic(data, e)
            ELSE IF magic \in {BOC_INDEXED_MAGIC, BOC_INDEXED_CRC32C_MAGIC}
                 THEN Err(UnsupportedFormat)
            ELSE Err(MalformedStream)

\* ------------------------------------------------------------- LiteBalancer
\* The balancer's peers are numbered 0..peers-1; the LiteClient behind each
\* index belongs to the environment.  peer_stats is a function from the peers
\* that have an entry to their PeerStats.
PeerStats_default ==
    [mc_block_seqno |-> 0, avg_response_time_ms |-> 0, total_requests |-> 0,
     current_requests |-> 0]
NoAlivePeers == "NoAlivePeers"
NoArchivePeers == "NoArchivePeers"
Timeout == "Timeout"
LiteErrorKind == "LiteError"

LiteBalancer_new(peers, timeout) ==
    [peers |-> peers, alive_peers |-> {}, archival_peers |-> {}, peer_stats |-> <<>>,
     checker_handle |-> None, max_req_per_peer |-> 100, max_retries |-> 1,
     timeout |-> timeout, inited |-> FALSE]

\* find_archives: archives is the set of peers that answer check_archive
find_archives(b, archives) == [b EXCEPT !.archival_peers = b.alive_peers \cap archives]

\* the health checker task: it sleeps three seconds, logs a trace line, and
\* sleeps again
spawn_health_checker == "sleep"
health_checker_step(pc) == IF pc = "sleep" THEN "trace" ELSE "sleep"

\* connect_to_peer returns true for every peer
start_up(b, archives) ==
    LET connected == [b EXCEPT !.alive_peers = @ \cup 0..(b.peers - 1)]
    IN [find_archives(connected, archives) EXCEPT !.checker_handle = Some(spawn_health_checker),
                                                  !.inited = TRUE]

close_all(b) == [b EXCEPT !.checker_handle = None, !.inited = FALSE]

\* the sort keys and the load of a peer, with the defaults for a peer that
\* has no entry in peer_stats
seqno_of(b, p) == IF p \in DOMAIN b.peer_stats THEN b.peer_stats[p].mc_block_seqno ELSE 0
time_of(b, p) ==
    IF p \in DOMAIN b.peer_stats THEN b.peer_stats[p].avg_response_time_ms ELSE b.timeout
current_of(b, p) == IF p \in DOMAIN b.peer_stats THEN b.peer_stats[p].current_requests ELSE 0

\* the comparison of sort_by: a sorts before b
sorts_before(b, p, q) ==
    \/ seqno_of(b, p) > seqno_of(b, q)
    \/ seqno_of(b, p) = seqno_of(b, q) /\ time_of(b, p) < time_of(b, q)

\* build_priority_list collects a HashSet, whose iteration order is not
\* specified, and sorts it with a stable sort: the result is any arrangement
\* of the candidates in which no peer stands after one it sorts before.
build_priority_list(b, only_archive) ==
    LET candidates == IF only_archive THEN b.archival_peers ELSE b.alive_peers
        n == Cardinality(candidates)
    IN {l \in [1..n -> candidates] :
           /\ \A i, j \in 1..n : i # j => l[i] # l[j]
           /\ \A i, j \in 1..n : i < j => ~sorts_before(b, l[j], l[i])}

\* choose_peer that skips the load limit and takes the head of the list
choose_peer_head(b, only_archive, peers) ==
    IF Len(peers) = 0 THEN Err(IF only_archive THEN NoArchivePeers ELSE NoAlivePeers)
    ELSE Ok(peers[1])

\* choose_peer on the list peers that build_priority_list returned
choose_peer(b, only_archive, peers) ==
    IF Len(peers) = 0 THEN Err(IF only_archive THEN NoArchivePeers ELSE NoAlivePeers)
    ELSE LET within == {i \in 1..Len(peers) : current_of(b, peers[i]) <= b.max_req_per_peer}
             min_req == CHOOSE m \in {current_of(b, peers[i]) : i \in 1..Len(peers)} :
                           \A i \in 1..Len(peers) : m <= current_of(b, peers[i])
             least == {i \in 1..Len(peers) : current_of(b, peers[i]) <= min_req}
             first(s) == CHOOSE i \in s : \A j \in s : i <= j
         IN IF within # {} THEN Ok(peers[first(within)])
            ELSE IF least # {} THEN Ok(peers[first(least)])
            ELSE Ok(peers[1])

calc_new_average(old_avg, n, new_value) ==
    IF n = 0 THEN new_value ELSE (old_avg * n + new_value) \div (n + 1)

\* stats.entry(peer_idx).or_insert_with(PeerStats::default)
stats_entry(b, peer_idx) ==
    IF peer_idx \in DOMAIN b.peer_stats THEN b.peer_stats[peer_idx] ELSE PeerStats_default
stats_insert(b, peer_idx, s) ==
    [b EXCEPT !.peer_stats = [p \in DOMAIN b.peer_stats \cup {peer_idx} |->
                                 IF p = peer_idx THEN s ELSE b.peer_stats[p]]]

update_average_request_time(b, peer_idx, request_time_ms) ==
    LET s == stats_entry(b, peer_idx)
    IN stats_insert(b, peer_idx,
          [s EXCEPT !.avg_response_time_ms =
                       calc_new_average(s.avg_response_time_ms, s.total_requests,
                                        request_time_ms),
                    !.total_requests = @ + 1])

execute_request(b, only_archive, peers) ==
    LET chosen == choose_peer(b, only_archive, peers)
    IN IF ~chosen.ok THEN Fail(b, chosen.err)
       ELSE Done(stats_insert(b, chosen.val,
                    [stats_entry(b, chosen.val) EXCEPT !.current_requests = @ + 1]),
                 chosen.val)

\* complete_request that leaves the counter of the peer as it is
complete_request_leaking(b, peer_idx, elapsed, success) ==
    IF success THEN update_average_request_time(b, peer_idx, elapsed)
    ELSE [update_average_request_time(b, peer_idx, b.timeout)
            EXCEPT !.alive_peers = @ \ {peer_idx}]

complete_request(b, peer_idx, elapsed, success) ==
    LET counted ==
            IF peer_idx \in DOMAIN b.peer_stats
            THEN stats_insert(b, peer_idx,
                    [b.peer_stats[peer_idx] EXCEPT !.current_requests = sat_sub(@, 1)])
            ELSE b
    IN IF success THEN update_average_request_time(counted, peer_idx, elapsed)
       ELSE [update_average_request_time(counted, peer_idx, b.timeout)
               EXCEPT !.alive_peers = @ \ {peer_idx}]

\* ================================================================== programs
\* Every specification below is a caller of the library.  op is the call
\* being made: its name, its arguments, and whether it has returned.
DefaultEnv == [overflow_checks |-> TRUE, alloc_ok |-> TRUE]
NoOp == [name |-> "none", args |-> <<>>, returned |-> TRUE]
Call(name, args) == [name |-> name, args |-> args, returned |-> FALSE]
Returned(name) == op.name = name /\ op.returned

\* --------------------------------------------------- Cell::with_data (SpecWithData)
\* Longest buffer handed to with_data, and the bit lengths tried.
MaxBufLen == 130
BufLens == (0..3) \cup ((MaxBufLen - 4)..MaxBufLen)
BufFills == {0, 165, 255}
WithDataBitLens == {0, 1, 7, 8, 9, 15, 16, 17, 24, 25, 1015, 1016, 1017, 1023, 1024,
                    1025, 1032, 2046, 2147483647}

InitWithData ==
    /\ cell = Cell_new
    /\ other = Cell_new
    /\ builder = CellBuilder_new
    /\ slice = Slice_new(Cell_new)
    /\ boc = <<>>
    /\ fork = Slice_new(Cell_new)
    /\ lb = LiteBalancer_new(0, 0)
    /\ ret = Ok(<<>>)
    /\ env = DefaultEnv
    /\ \E len \in BufLens, fill \in BufFills, n \in WithDataBitLens :
          op = Call("with_data", <<Repeat(fill, len), n>>)

CallWithData ==
    /\ op.name = "with_data" /\ ~op.returned
    /\ ret' = with_data(op.args[1], op.args[2])
    /\ cell' = IF ret'.ok THEN ret'.val ELSE cell
    /\ op' = [op EXCEPT !.returned = TRUE]
    /\ UNCHANGED <<fork, lb, other, builder, slice, boc, env>>

NextWithData == CallWithData
SpecWithData == InitWithData /\ [][NextWithData]_vars

\* C4: with_data(data, n) succeeds iff n <= 1023 and data holds at least
\* ceil(n/8) bytes (8 * len >= n); n > 1023 gives the capacity error, and a
\* buffer too short for an n <= 1023 gives the insufficient-data error.
C4_WithDataIff ==
    Returned("with_data") =>
        LET data == op.args[1]
            n == op.args[2]
            fits == n <= 1023
            enough == \E bytes \in 0..Len(data) : 8 * bytes >= n /\ 8 * bytes < n + 8
        IN /\ ret.ok <=> (fits /\ enough)
           /\ ~fits => ret.err = CapacityExceeded
           /\ (fits /\ ~enough) => ret.err = InsufficientData
           /\ ret.ok => (cell.data = data /\ cell.bit_len = n /\ cell.references = <<>>)

\* with_data returned Ok for a 1023-bit cell in a 128-byte buffer, Err for 1024.
C4_Witness ==
    /\ Returned("with_data")
    /\ ret.ok
    /\ op.args[2] = 1023
    /\ Len(op.args[1]) = 128

\* ------------------------------- store_uint/store_int, load_uint/load_int (SpecInt)
\* A builder that already holds some bits stores one integer; the cell is
\* built and a Slice positioned where the integer starts reads it back.
MaxPrefix == 9
PrefixLens == (0..MaxPrefix) \cup {MAX_CELL_BITS - 65, MAX_CELL_BITS - 64, MAX_CELL_BITS - 8}
\* the bits stored before the integer: 1,0,1,0,...
PrefixBytes(p) == Repeat(170, ceil8(p))
IntWidths == 1..64
\* bit patterns of width w: 0, 1, the top bit, all ones, and two alternations
Patterns(w) ==
    { [k \in 0..63 |-> 0],
      [k \in 0..63 |-> IF k = 0 THEN 1 ELSE 0],
      [k \in 0..63 |-> IF k = w - 1 THEN 1 ELSE 0],
      [k \in 0..63 |-> IF k < w THEN 1 ELSE 0],
      [k \in 0..63 |-> IF k < w - 1 THEN 1 ELSE 0],
      [k \in 0..63 |-> IF k < w /\ k % 2 = 0 THEN 1 ELSE 0],
      [k \in 0..63 |-> IF k < w /\ k % 3 = 1 THEN 1 ELSE 0] }
\* the i64 whose low w bits are v's: v sign-extended from bit w - 1
SignExtend(v, w) == [k \in 0..63 |-> IF k < w THEN v[k] ELSE v[w - 1]]

InitInt ==
    /\ cell = Cell_new
    /\ other = Cell_new
    /\ slice = Slice_new(Cell_new)
    /\ boc = <<>>
    /\ fork = Slice_new(Cell_new)
    /\ lb = LiteBalancer_new(0, 0)
    /\ ret = Ok(<<>>)
    /\ op = NoOp
    /\ env \in {[overflow_checks |-> oc, alloc_ok |-> TRUE] : oc \in BOOLEAN}
    /\ \E p \in PrefixLens : builder = store_bits(CellBuilder_new, PrefixBytes(p), p).self

CallStoreUint ==
    /\ op = NoOp
    /\ env.overflow_checks
    /\ \E bits \in IntWidths : \E value \in Patterns(bits) :
          /\ ret' = store_uint(builder, value, bits)
          /\ op' = [name |-> "store_uint", returned |-> TRUE,
                    args |-> [value |-> value, bits |-> bits, at |-> builder.bit_len]]
    /\ builder' = ret'.self
    /\ UNCHANGED <<fork, lb, cell, other, slice, boc, env>>

CallStoreInt ==
    /\ op = NoOp
    /\ builder.bit_len <= 1
    /\ \E bits \in IntWidths : \E low \in Patterns(bits) :
          /\ ret' = store_int(builder, SignExtend(low, bits), bits, env.overflow_checks)
          /\ op' = [name |-> "store_int", returned |-> TRUE,
                    args |-> [value |-> SignExtend(low, bits), bits |-> bits,
                              at |-> builder.bit_len]]
    /\ builder' = ret'.self
    /\ UNCHANGED <<fork, lb, cell, other, slice, boc, env>>

\* build() the cell and open a Slice at the position the integer was stored at
BuildAndSeek ==
    /\ op.name \in {"store_uint", "store_int"}
    /\ ret.ok
    /\ LET built == build(builder)
       IN /\ built.ok
          /\ cell' = built.val
          /\ slice' = skip_bits(Slice_new(built.val), op.args.at).self
          /\ ret' = built
    /\ op' = [op EXCEPT !.name = IF op.name = "store_uint" THEN "seek_uint" ELSE "seek_int"]
    /\ UNCHANGED <<fork, lb, other, builder, boc, env>>

CallLoadUint ==
    /\ op.name = "seek_uint"
    /\ ret' = load_uint(slice, op.args.bits)
    /\ slice' = ret'.self
    /\ op' = [op EXCEPT !.name = "load_uint"]
    /\ UNCHANGED <<fork, lb, cell, other, builder, boc, env>>

CallLoadInt ==
    /\ op.name = "seek_int"
    /\ ret' = load_int(slice, op.args.bits, env.overflow_checks)
    /\ slice' = ret'.self
    /\ op' = [op EXCEPT !.name = "load_int"]
    /\ UNCHANGED <<fork, lb, cell, other, builder, boc, env>>

NextInt ==
    \/ CallStoreUint
    \/ CallStoreInt
    \/ BuildAndSeek
    \/ CallLoadUint
    \/ CallLoadInt
SpecInt == InitInt /\ [][NextInt]_vars

\* C9: for bits in 1..64 and value < 2^bits stored after any number of bits
\* with the total within 1023, store_uint succeeds, and load_uint(bits) at the
\* position the value was stored at returns the value and consumes bits bits.
C9_UintRoundTrip ==
    /\ (op.name = "store_uint" /\ op.args.at + op.args.bits <= 1023) => ret.ok
    /\ op.name = "load_uint" =>
          /\ ret.ok
          /\ ret.val = op.args.value
          /\ slice.bit_pos = op.args.at + op.args.bits

\* a 64-bit value with its top bit set was stored at an unaligned position
\* near the end of the cell and read back
C9_Witness ==
    /\ op.name = "load_uint"
    /\ ret.ok
    /\ op.args.bits = 64
    /\ op.args.value[63] = 1
    /\ op.args.at = 959

\* C10: for bits in 1..64 and v in the signed range of that width,
\* store_int(v, bits) succeeds without aborting and load_int(bits) on the built
\* cell returns v.
C10_IntRoundTrip ==
    /\ op.name = "store_int" => ret.ok
    /\ op.name = "load_int" => (ret.ok /\ ret.val = op.args.value)

\* ----------------------------------------------------- Cell::hash (SpecHash)
\* One cell is made with Cell::with_data and add_reference; a second one with
\* the same payload bits and the same references is made with a CellBuilder.
HashBytes == {240, 255}
\* test_cell_hash: Cell::with_data(vec![0x00, 0x00, 0x00, 0x0F], 32)
VectorData == <<0, 0, 0, 15>>
HashBufs ==
    {<<>>, VectorData} \cup {<<a>> : a \in HashBytes} \cup {<<a, b>> : a, b \in HashBytes}
HashBitLens == {0, 4, 8, 12, 32}
MaxHashRefs == 2
LeafCell == with_data(<<170>>, 8).val
NodeCell == add_reference(with_data(<<187>>, 8).val, LeafCell).val
ChildCells == {LeafCell, NodeCell}

InitHash ==
    /\ cell = Cell_new
    /\ other = Cell_new
    /\ builder = CellBuilder_new
    /\ slice = Slice_new(Cell_new)
    /\ boc = <<>>
    /\ fork = Slice_new(Cell_new)
    /\ lb = LiteBalancer_new(0, 0)
    /\ ret = Ok(<<>>)
    /\ op = NoOp
    /\ env = DefaultEnv

HashWithData ==
    /\ op = NoOp
    /\ \E data \in HashBufs, n \in HashBitLens :
          /\ ret' = with_data(data, n)
          /\ ret'.ok
          /\ cell' = ret'.val
          /\ op' = [name |-> "with_data", args |-> <<data, n>>, returned |-> TRUE]
    /\ UNCHANGED <<fork, lb, other, builder, slice, boc, env>>

HashAddReference ==
    /\ op.name \in {"with_data", "add_reference"}
    /\ Len(cell.references) < MaxHashRefs
    /\ \E child \in ChildCells :
          /\ ret' = add_reference(cell, child)
          /\ cell' = IF ret'.ok THEN ret'.val ELSE cell
          /\ op' = [name |-> "add_reference", args |-> <<child>>, returned |-> TRUE]
    /\ UNCHANGED <<fork, lb, other, builder, slice, boc, env>>

\* the builder stores the payload bits of `cell` from any buffer that has them
HashStoreBits ==
    /\ op.name \in {"with_data", "add_reference"}
    /\ \E bits \in HashBufs :
          /\ Len(bits) >= ceil8(cell.bit_len)
          /\ PayloadBits(bits, cell.bit_len) = PayloadBits(cell.data, cell.bit_len)
          /\ ret' = store_bits(builder, bits, cell.bit_len)
          /\ builder' = ret'.self
          /\ op' = [name |-> "store_bits", args |-> <<bits, cell.bit_len>>, returned |-> TRUE]
    /\ UNCHANGED <<fork, lb, cell, other, slice, boc, env>>

\* ... and the references of `cell`, in order
HashStoreReference ==
    /\ op.name \in {"store_bits", "store_reference"}
    /\ Len(builder.references) < Len(cell.references)
    /\ ret' = store_reference(builder, cell.references[Len(builder.references) + 1])
    /\ builder' = ret'.self
    /\ op' = [name |-> "store_reference", args |-> <<>>, returned |-> TRUE]
    /\ UNCHANGED <<fork, lb, cell, other, slice, boc, env>>

HashBuild ==
    /\ op.name \in {"store_bits", "store_reference"}
    /\ Len(builder.references) = Len(cell.references)
    /\ ret' = build(builder)
    /\ other' = IF ret'.ok THEN ret'.val ELSE other
    /\ op' = [name |-> "build", args |-> <<>>, returned |-> TRUE]
    /\ UNCHANGED <<fork, lb, cell, builder, slice, boc, env>>

NextHash ==
    \/ HashWithData
    \/ HashAddReference
    \/ HashStoreBits
    \/ HashStoreReference
    \/ HashBuild
SpecHash == InitHash /\ [][NextHash]_vars

\* The two cells have the same bit_len, payload bits and references.
SameContent(a, b) ==
    /\ a.bit_len = b.bit_len
    /\ PayloadBits(a.data, a.bit_len) = PayloadBits(b.data, b.bit_len)
    /\ Len(a.references) = Len(b.references)
    /\ \A i \in 1..Len(a.references) : hash(a.references[i]) = hash(b.references[i])

\* C6: two cells with the same bit_len, the same payload bits and hash-equal
\* references in the same order have the same hash() and depth(), whether
\* made by Cell::with_data from any admissible buffer or by a builder.
C6_SameContentSameHash ==
    (Returned("build") /\ ret.ok /\ SameContent(cell, other)) =>
        (hash(cell) = hash(other) /\ depth(cell) = depth(other))

RECURSIVE MaxDepthOf(_)
MaxDepthOf(refs) ==
    IF Len(refs) = 0 THEN 0 ELSE Max2(depth(Head(refs)), MaxDepthOf(Tail(refs)))

\* the documented digest of with_data([0,0,0,0x0F], 32)
KnownDigest ==
    << 87, 181, 32, 219, 203, 157, 19, 88, 99, 252, 51, 150, 60, 222, 159, 109,
       178, 222, 209, 67, 13, 136, 5, 104, 16, 162, 201, 67, 74, 56, 96, 249 >>
\* SHA-256 of 02 01 f8 | 0001 0000 | digest(NodeCell) | digest(LeafCell), the
\* preimage the claim gives for with_data([0xF0], 4) with references
\* [NodeCell, LeafCell], computed with a reference SHA-256
TwoRefDigest ==
    << 221, 101, 159, 176, 250, 157, 150, 69, 73, 248, 81, 142, 205, 59, 171, 177,
       37, 231, 251, 119, 91, 61, 50, 239, 122, 146, 106, 9, 85, 220, 192, 111 >>

\* C7: hash() is SHA-256 of d1 d2 (d1 = refs + 8*exotic + 32*level,
\* d2 = floor(bits/8) + ceil(bits/8)), serialize_data(), each reference's depth
\* as a big-endian u16, then each reference's hash, in this order; depth is 0
\* without references and 1 + the largest child depth otherwise; and
\* with_data([0,0,0,0x0F], 32) hashes to 57b520db...60f9.
C7_HashFormula ==
    LET n == Len(cell.references)
        d1 == n + 8 * (IF cell.is_exotic THEN 1 ELSE 0) + 32 * cell.level
        floor == CHOOSE q \in 0..128 : 8 * q <= cell.bit_len /\ cell.bit_len < 8 * q + 8
        ceil == CHOOSE q \in 0..128 : 8 * q >= cell.bit_len /\ cell.bit_len > 8 * q - 8
        dep == IF n = 0 THEN 0 ELSE 1 + MaxDepthOf(cell.references)
    IN /\ depth(cell) = dep
       /\ hash(cell).msg =
             <<d1, floor + ceil>> \o serialize_data(cell)
             \o Concat([i \in 1..n |-> << depth(cell.references[i]) \div 256,
                                          depth(cell.references[i]) % 256 >>])
       /\ hash(cell).sub = [i \in 1..n |-> hash(cell.references[i])]
       /\ (cell.data = VectorData /\ cell.bit_len = 32 /\ n = 0) =>
             digest_bytes(hash(cell)) = KnownDigest
       /\ (cell.data = <<240>> /\ cell.bit_len = 4 /\ cell.references = <<NodeCell, LeafCell>>) =>
             digest_bytes(hash(cell)) = TwoRefDigest

\* the documented vector was hashed, and so was a cell with two references of
\* different depths
C7_Witness ==
    /\ cell.data = <<240>>
    /\ cell.bit_len = 4
    /\ cell.references = <<NodeCell, LeafCell>>
    /\ depth(cell) = 2
    /\ digest_bytes(hash(cell)) = TwoRefDigest

\* ------------------------------------------- memoized hash/depth (SpecMemo)
\* A cell is made, then hash(), depth() and add_reference are called on it in
\* any order; op.args is the sequence of calls made so far.
MaxMemoCalls == 6
MemoBufs == {<<>>, <<240>>, <<1, 2>>}
MemoBitLens == {0, 4}

InitMemo ==
    /\ cell = Cell_new
    /\ other = Cell_new
    /\ builder = CellBuilder_new
    /\ slice = Slice_new(Cell_new)
    /\ boc = <<>>
    /\ fork = Slice_new(Cell_new)
    /\ lb = LiteBalancer_new(0, 0)
    /\ ret = Ok(<<>>)
    /\ op = NoOp
    /\ env = DefaultEnv

MemoWithData ==
    /\ op = NoOp
    /\ \E data \in MemoBufs, n \in MemoBitLens :
          /\ ret' = with_data(data, n)
          /\ ret'.ok
          /\ cell' = ret'.val
          /\ op' = [name |-> "with_data", args |-> <<"with_data">>, returned |-> TRUE]
    /\ UNCHANGED <<fork, lb, other, builder, slice, boc, env>>

MemoAddReference ==
    /\ op # NoOp
    /\ Len(op.args) < MaxMemoCalls
    /\ \E child \in ChildCells :
          /\ ret' = add_reference(cell, child)
          /\ cell' = IF ret'.ok THEN ret'.val ELSE cell
          /\ op' = [name |-> "add_reference", args |-> Append(op.args, "add_reference"),
                    returned |-> TRUE]
    /\ UNCHANGED <<fork, lb, other, builder, slice, boc, env>>

\* hash(&self) and depth(&self) leave the cell as it is
MemoHash ==
    /\ op # NoOp
    /\ Len(op.args) < MaxMemoCalls
    /\ ret' = Ok(hash(cell))
    /\ op' = [name |-> "hash", args |-> Append(op.args, "hash"), returned |-> TRUE]
    /\ UNCHANGED <<fork, lb, cell, other, builder, slice, boc, env>>

MemoDepth ==
    /\ op # NoOp
    /\ Len(op.args) < MaxMemoCalls
    /\ ret' = Ok(depth(cell))
    /\ op' = [name |-> "depth", args |-> Append(op.args, "depth"), returned |-> TRUE]
    /\ UNCHANGED <<fork, lb, cell, other, builder, slice, boc, env>>

NextMemo ==
    \/ MemoWithData
    \/ MemoAddReference
    \/ MemoHash
    \/ MemoDepth
SpecMemo == InitMemo /\ [][NextMemo]_vars

\* the cell with every cached hash and depth dropped, references included
RECURSIVE Unmemo(_)
Unmemo(c) ==
    [c EXCEPT !.hash = None, !.depth = None,
              !.references = [i \in 1..Len(c.references) |-> Unmemo(c.references[i])]]

\* C8: hash() and depth() always return the values computed from the cell's
\* current data and references: a call returns what a computation from
\* scratch gives, so repeated calls agree, and after add_reference the result
\* covers the added reference even if hash() or depth() was called before.
C8_NoStaleMemo ==
    /\ hash(cell) = hash(Unmemo(cell))
    /\ depth(cell) = depth(Unmemo(cell))
    /\ Len(hash(cell).sub) = Len(cell.references)
    /\ Returned("hash") => ret.val = hash(Unmemo(cell))
    /\ Returned("depth") => ret.val = depth(Unmemo(cell))

\* hash() and depth() were called, a reference was added, hash() was called
\* again and covers the new reference
C8_Witness ==
    /\ op.args = <<"with_data", "hash", "depth", "add_reference", "hash">>
    /\ cell.references = <<NodeCell>>
    /\ ret.val = hash(cell)
    /\ ret.val.sub = <<hash(NodeCell)>>
    /\ depth(cell) = 2

\* ------------------------------------------------------- BoC codec (SpecBoc)
\* A caller serializes a cell and parses the stream back, as produced or with
\* one byte replaced; another caller parses a stream received from outside.
HalfCell == build(store_bits(CellBuilder_new, <<240>>, 4).self).val
\* HalfCell's payload with references to NodeCell and LeafCell (LeafCell shared)
TopCell == build(add_references(Ok(HalfCell), <<NodeCell, LeafCell>>).val).val
TwinCell == add_references(with_data(<<>>, 0), <<LeafCell, LeafCell>>).val
BuiltRoots == {build(CellBuilder_new).val, LeafCell, NodeCell, HalfCell, TopCell, TwinCell}
\* cells whose buffer is longer than the payload or has bits set after it
WithDataRoots == {with_data(<<1, 2>>, 8).val, with_data(<<255>>, 4).val}
BocRoots == BuiltRoots \cup WithDataRoots

\* the bytes a single byte b is replaced with: each one-bit change, 0 and 255
Replacements(b) == ({XorT[b][2 ^ k] : k \in 0..7} \cup {0, 255}) \ {b}

\* streams received from outside: a header with chosen widths, counts and
\* sizes around one cell record, every prefix of a valid stream, and the
\* indexed magics
\* size_bytes is three bits wide; offset_bytes is a whole byte, at most 8
SizeWidths == {1, 7}
OffsetWidths == {1, 8}
ReceivedField(kind, width, fit) ==
    IF kind = "fit" THEN Zeros(width - 1) \o <<fit>>
    ELSE IF kind = "max" THEN Repeat(255, width)
    ELSE <<1>> \o Zeros(width - 1)
ReceivedRecords == <<0, 2, 170>>
ReceivedStream(flags, size_bytes, offset_bytes, count, cells_size) ==
    BOC_GENERIC_MAGIC \o <<Or8(flags, size_bytes), offset_bytes>>
    \o ReceivedField(count, size_bytes, 1)
    \o ReceivedField("fit", size_bytes, 1)
    \o ReceivedField("fit", size_bytes, 0)
    \o ReceivedField(cells_size, offset_bytes, Len(ReceivedRecords))
    \o ReceivedField("fit", size_bytes, 0)
    \o ReceivedRecords
ValidStream == serialize_boc(TopCell, TRUE).val
ReceivedStreams ==
    {ReceivedStream(flags, s, o, count, size) :
        flags \in {0, 64}, s \in SizeWidths, o \in OffsetWidths,
        count \in {"fit", "max", "high"}, size \in {"fit", "max", "high"}}
    \cup {SubSeq(ValidStream, 1, n) : n \in 0..Len(ValidStream)}
    \cup {BOC_INDEXED_MAGIC \o <<1, 1>>, BOC_INDEXED_CRC32C_MAGIC \o <<1, 1>>}

InitBoc ==
    /\ cell = Cell_new
    /\ other = Cell_new
    /\ builder = CellBuilder_new
    /\ slice = Slice_new(Cell_new)
    /\ boc = <<>>
    /\ fork = Slice_new(Cell_new)
    /\ lb = LiteBalancer_new(0, 0)
    /\ ret = Ok(<<>>)
    /\ op = NoOp
    /\ env \in [overflow_checks : BOOLEAN, alloc_ok : BOOLEAN]

BocRoot ==
    /\ op = NoOp
    /\ cell' \in BocRoots
    /\ op' = [name |-> "root", args |-> <<>>, returned |-> TRUE]
    /\ UNCHANGED <<fork, lb, other, builder, slice, boc, ret, env>>

BocSerialize ==
    /\ op.name = "root"
    /\ \E has_crc32 \in BOOLEAN :
          /\ ret' = serialize_boc(cell, has_crc32)
          /\ boc' = IF ret'.ok THEN ret'.val ELSE boc
          /\ op' = [name |-> "serialize_boc", args |-> <<has_crc32>>, returned |-> TRUE]
    /\ UNCHANGED <<fork, lb, cell, other, builder, slice, env>>

\* byte i (0-based) of a stream serialized with has_crc32 is replaced by v
BocReplaceByte ==
    /\ op.name = "serialize_boc"
    /\ op.args = <<TRUE>>
    /\ ret.ok
    /\ \E i \in 1..Len(boc) : \E v \in Replacements(boc[i]) :
          /\ boc' = [boc EXCEPT ![i] = v]
          /\ op' = [name |-> "replace", args |-> <<i - 1, v, boc[5]>>, returned |-> TRUE]
    /\ UNCHANGED <<fork, lb, cell, other, builder, slice, ret, env>>

BocReceive ==
    /\ op = NoOp
    /\ boc' \in ReceivedStreams
    /\ op' = [name |-> "receive", args |-> <<>>, returned |-> TRUE]
    /\ UNCHANGED <<fork, lb, cell, other, builder, slice, ret, env>>

BocDeserialize ==
    /\ op.name \in {"serialize_boc", "replace", "receive"}
    /\ ret' = deserialize_boc(boc, env)
    /\ other' = IF ret'.ok THEN ret'.val ELSE other
    /\ op' = [name |-> "deserialize_boc", args |-> <<op.name>> \o op.args, returned |-> TRUE]
    /\ UNCHANGED <<fork, lb, cell, builder, slice, boc, env>>

NextBoc ==
    \/ BocRoot
    \/ BocSerialize
    \/ BocReplaceByte
    \/ BocReceive
    \/ BocDeserialize
SpecBoc == InitBoc /\ [][NextBoc]_vars

\* C1: parsing the serialization of a cell DAG, with or without CRC, succeeds
\* and returns a cell with the hash of the original.
C1_RoundTripHash ==
    (Returned("deserialize_boc") /\ op.args[1] = "serialize_boc") =>
        (ret.ok /\ hash(ret.val) = hash(cell))

\* C3: deserialize_boc returns a success or an error for every input; it never
\* aborts.
C3_NeverAborts ==
    Returned("deserialize_boc") => ret.err # Abort

StoreBitsArgs ==
    { <<Repeat(170, 64), 512>>, <<Repeat(255, 56), 447>>,
      <<<<255>>, 9>>, <<Repeat(255, 128), 1024>> }
StoreUintArgs == { <<BVZero, 64>>, <<BVOnes, 65>> }
WithDataArgs ==
    { <<Repeat(255, 128), 1023>>, <<Repeat(255, 128), 1024>>, <<Repeat(255, 127), 1023>>,
      <<<<1, 2>>, 8>>, <<<<>>, 0>>, <<<<255>>, 4>> }
\* received streams: a valid one, one whose cells_size is 2^64 - 1, a record of
\* 128 bytes without padding marker, a record announcing 7 references, and a
\* record with 4 references
ApiStreams(c) ==
    {serialize_boc(c, TRUE).val, serialize_boc(c, FALSE).val,
     ReceivedStream(0, 1, 1, "fit", "fit"), ReceivedStream(0, 1, 8, "fit", "max"),
     BOC_GENERIC_MAGIC \o <<1, 1, 1, 1, 0, 131, 0>> \o <<0, 255>> \o Zeros(128) \o <<0>>,
     BOC_GENERIC_MAGIC \o <<1, 1, 1, 1, 0, 15, 0>> \o <<7, 2, 1>> \o Zeros(12),
     BOC_GENERIC_MAGIC \o <<1, 1, 2, 1, 0, 10, 1>> \o <<0, 2, 170>> \o <<4, 1, 248, 0, 0, 0, 0>>}

StoreCalls == {"none", "store_bits", "store_uint", "store_int", "store_reference"}
Called(name) == [name |-> name, args |-> <<>>, returned |-> TRUE]

Init ==
    /\ cell = Cell_new
    /\ other = Cell_new
    /\ builder = CellBuilder_new
    /\ slice = Slice_new(Cell_new)
    /\ boc = <<>>
    /\ fork = Slice_new(Cell_new)
    /\ lb = LiteBalancer_new(0, 0)
    /\ ret = Ok(<<>>)
    /\ op = NoOp
    /\ env \in [overflow_checks : BOOLEAN, alloc_ok : {TRUE}]

ApiStoreBits ==
    /\ op.name \in StoreCalls
    /\ \E a \in StoreBitsArgs :
          /\ ret' = store_bits(builder, a[1], a[2])
          /\ builder' = ret'.self
    /\ op' = Called("store_bits")
    /\ UNCHANGED <<fork, lb, cell, other, slice, boc, env>>

ApiStoreUint ==
    /\ op.name \in StoreCalls
    /\ \E a \in StoreUintArgs :
          /\ ret' = store_uint(builder, a[1], a[2])
          /\ builder' = ret'.self
    /\ op' = Called("store_uint")
    /\ UNCHANGED <<fork, lb, cell, other, slice, boc, env>>

\* Builder::store_int; a panic unwinds the caller, who is left without builder
ApiStoreInt ==
    /\ op.name \in StoreCalls
    /\ ret' = store_int(builder, BVOnes, 64, env.overflow_checks)
    /\ builder' = ret'.self
    /\ op' = Called(IF ret'.err = Abort THEN "panic" ELSE "store_int")
    /\ UNCHANGED <<fork, lb, cell, other, slice, boc, env>>

ApiStoreReference ==
    /\ op.name \in StoreCalls
    /\ ret' = store_reference(builder, LeafCell)
    /\ builder' = ret'.self
    /\ op' = Called("store_reference")
    /\ UNCHANGED <<fork, lb, cell, other, slice, boc, env>>

ApiBuild ==
    /\ op.name \in StoreCalls
    /\ ret' = build(builder)
    /\ cell' = IF ret'.ok THEN ret'.val ELSE cell
    /\ op' = Called("build")
    /\ UNCHANGED <<fork, lb, other, builder, slice, boc, env>>

ApiWithData ==
    /\ op = NoOp
    /\ \E a \in WithDataArgs :
          /\ ret' = with_data(a[1], a[2])
          /\ cell' = IF ret'.ok THEN ret'.val ELSE cell
    /\ op' = Called("with_data")
    /\ UNCHANGED <<fork, lb, other, builder, slice, boc, env>>

ApiAddReference ==
    /\ \/ op.name = "with_data" /\ ret.ok
       \/ op.name = "add_reference" /\ ret.ok
    /\ \E child \in ChildCells :
          /\ ret' = add_reference(cell, child)
          /\ cell' = IF ret'.ok THEN ret'.val ELSE cell
    /\ op' = Called("add_reference")
    /\ UNCHANGED <<fork, lb, other, builder, slice, boc, env>>

ApiDeserialize ==
    /\ op.name \in {"none", "build", "with_data", "add_reference"}
    /\ \E data \in ApiStreams(cell) :
          /\ boc' = data
          /\ ret' = deserialize_boc(data, env)
          /\ cell' = IF ret'.ok THEN ret'.val ELSE cell
    /\ op' = Called("deserialize_boc")
    /\ UNCHANGED <<fork, lb, other, builder, slice, env>>

Next ==
    \/ ApiStoreBits
    \/ ApiStoreUint
    \/ ApiStoreInt
    \/ ApiStoreReference
    \/ ApiBuild
    \/ ApiWithData
    \/ ApiAddReference
    \/ ApiDeserialize
Spec == Init /\ [][Next]_vars

RECURSIVE WithinLimits(_)
WithinLimits(c) ==
    /\ c.bit_len <= 1023
    /\ Len(c.references) <= 4
    /\ 8 * Len(c.data) >= c.bit_len
    /\ \A i \in 1..Len(c.references) : WithinLimits(c.references[i])

\* C5: every cell the public API hands out (from build() after any stores, from
\* with_data and add_reference, from a successful deserialize_boc), and every
\* cell it references, has at most 1023 bits, at most 4 references and a data
\* buffer of at least ceil(bit_len / 8) bytes.
C5_CellWithinLimits ==
    /\ WithinLimits(cell)
    /\ (op.name \in {"build", "with_data", "deserialize_boc"} /\ ret.ok) => WithinLimits(ret.val)

\* a full cell: 1023 bits and four references, after a fifth add_reference
\* was refused
C5_Witness ==
    /\ cell.bit_len = 1023
    /\ Len(cell.references) = 4
    /\ Len(cell.data) = 128
    /\ Returned("add_reference")
    /\ ret.err = CapacityExceeded

\* ------------------------------------------ 128-bit values (u128 of store_coins)
\* A u128 is the function of its 128 bits, bit 0 the least significant.
U128_BITS == 128
U128Zero == [k \in 0..127 |-> 0]
\* number of significant bits of a bit vector over 0..w-1: w - leading_zeros()
significant_bits(a, w) ==
    IF \A k \in 0..(w - 1) : a[k] = 0 THEN 0
    ELSE 1 + CHOOSE k \in 0..(w - 1) : a[k] = 1 /\ \A j \in (k + 1)..(w - 1) : a[j] = 0
\* the sixteen bytes of a u128, least significant byte first
to_le_bytes128(a) ==
    [j \in 1..16 |->
        LET v(k) == a[8 * (j - 1) + k] * 2 ^ k
        IN v(0) + v(1) + v(2) + v(3) + v(4) + v(5) + v(6) + v(7)]
\* u128::to_be_bytes
to_be_bytes128(a) ==
    [j \in 1..16 |->
        LET v(k) == a[8 * (16 - j) + k] * 2 ^ k
        IN v(0) + v(1) + v(2) + v(3) + v(4) + v(5) + v(6) + v(7)]
\* (result << 8) | (byte as u128)
shl8_or128(result, byte) ==
    [k \in 0..127 |-> IF k < 8 THEN Bit(byte, k) ELSE result[k - 8]]
\* (result << 8) | (byte as u64)
shl8_or64(result, byte) ==
    [k \in 0..63 |-> IF k < 8 THEN Bit(byte, k) ELSE result[k - 8]]

\* ------------------------------------------- Builder: variable-length stores
store_var_uint(b, value, length_bits) ==
    IF value = BVZero THEN store_uint(b, BVZero, length_bits)
    ELSE LET byte_len == ceil8(significant_bits(value, U64_BITS))
             r == store_uint(b, BV(byte_len), length_bits)
         IN IF ~r.ok THEN r
            ELSE store_uint(r.self, value, byte_len * 8)

store_coins(b, amount) ==
    IF amount = U128Zero THEN store_uint(b, BVZero, 4)
    ELSE LET byte_len == ceil8(significant_bits(amount, U128_BITS))
         IN IF byte_len > 16 THEN Fail(b, CapacityExceeded)
            ELSE LET r == store_uint(b, BV(byte_len), 4)
                 IN IF ~r.ok THEN r
                    ELSE store_bytes(r.self, SubSeq(to_be_bytes128(amount),
                                                    16 - byte_len + 1, 16))

\* --------------------------------------------- Slice: variable-length loads
load_bytes(s, n) == load_bits(s, n * 8)

RECURSIVE load_var_uint_acc(_, _, _)
load_var_uint_acc(bytes, i, result) ==
    IF i > Len(bytes) THEN result
    ELSE load_var_uint_acc(bytes, i + 1, shl8_or64(result, bytes[i]))

load_var_uint(s, length_bits) ==
    IF length_bits > 8 THEN Fail(s, MalformedStream)
    ELSE LET l == load_uint(s, length_bits)
         IN IF ~l.ok THEN l
            ELSE IF BVNat(l.val) > 8 THEN Fail(l.self, MalformedStream)
            ELSE IF BVNat(l.val) = 0 THEN Done(l.self, BVZero)
            ELSE LET r == load_bytes(l.self, BVNat(l.val))
                 IN IF ~r.ok THEN r
                    ELSE Done(r.self, load_var_uint_acc(r.val, 1, BVZero))

RECURSIVE load_coins_acc(_, _, _)
load_coins_acc(bytes, i, result) ==
    IF i > Len(bytes) THEN result
    ELSE load_coins_acc(bytes, i + 1, shl8_or128(result, bytes[i]))

load_coins(s) ==
    LET l == load_uint(s, 4)
    IN IF ~l.ok THEN l
       ELSE IF BVNat(l.val) > 16 THEN Fail(l.self, MalformedStream)
       ELSE IF BVNat(l.val) = 0 THEN Done(l.self, U128Zero)
       ELSE LET r == load_bytes(l.self, BVNat(l.val))
            IN IF ~r.ok THEN r
               ELSE Done(r.self, load_coins_acc(r.val, 1, U128Zero))

\* -------------------------- store_coins/store_var_uint and their loads (SpecVar)
\* A fresh Builder stores one value; the cell is built and a Slice over it
\* loads the value back.
\* 2^n as a u128
Pow128(n) == [k \in 0..127 |-> IF k = n THEN 1 ELSE 0]
\* 2^n - 1 as a u128
Ones128(n) == [k \in 0..127 |-> IF k < n THEN 1 ELSE 0]
CoinAmounts == {Pow128(n) : n \in 0..127} \cup {Ones128(n) : n \in 0..128}
VarLengthBits == 1..8
VarValues == UNION {Patterns(w) : w \in IntWidths}

InitVar ==
    /\ cell = Cell_new
    /\ other = Cell_new
    /\ builder = CellBuilder_new
    /\ slice = Slice_new(Cell_new)
    /\ boc = <<>>
    /\ fork = Slice_new(Cell_new)
    /\ lb = LiteBalancer_new(0, 0)
    /\ ret = Ok(<<>>)
    /\ op = NoOp
    /\ env = DefaultEnv

VarStoreCoins ==
    /\ op = NoOp
    /\ \E amount \in CoinAmounts :
          /\ ret' = store_coins(builder, amount)
          /\ op' = [name |-> "store_coins", returned |-> TRUE,
                    args |-> [amount |-> amount]]
    /\ builder' = ret'.self
    /\ UNCHANGED <<fork, lb, cell, other, slice, boc, env>>

VarStoreVarUint ==
    /\ op = NoOp
    /\ \E length_bits \in VarLengthBits : \E value \in VarValues :
          /\ ret' = store_var_uint(builder, value, length_bits)
          /\ op' = [name |-> "store_var_uint", returned |-> TRUE,
                    args |-> [value |-> value, length_bits |-> length_bits]]
    /\ builder' = ret'.self
    /\ UNCHANGED <<fork, lb, cell, other, slice, boc, env>>

\* build() the cell and open a Slice over it
VarBuild ==
    /\ op.name \in {"store_coins", "store_var_uint"}
    /\ ret.ok
    /\ LET built == build(builder)
       IN /\ built.ok
          /\ cell' = built.val
          /\ slice' = Slice_new(built.val)
          /\ ret' = built
    /\ op' = [op EXCEPT !.name = IF op.name = "store_coins" THEN "built_coins"
                                  ELSE "built_var_uint"]
    /\ UNCHANGED <<fork, lb, other, builder, boc, env>>

VarLoadCoins ==
    /\ op.name = "built_coins"
    /\ ret' = load_coins(slice)
    /\ slice' = ret'.self
    /\ op' = [op EXCEPT !.name = "load_coins"]
    /\ UNCHANGED <<fork, lb, cell, other, builder, boc, env>>

VarLoadVarUint ==
    /\ op.name = "built_var_uint"
    /\ ret' = load_var_uint(slice, op.args.length_bits)
    /\ slice' = ret'.self
    /\ op' = [op EXCEPT !.name = "load_var_uint"]
    /\ UNCHANGED <<fork, lb, cell, other, builder, boc, env>>

NextVar ==
    \/ VarStoreCoins
    \/ VarStoreVarUint
    \/ VarBuild
    \/ VarLoadCoins
    \/ VarLoadVarUint
SpecVar == InitVar /\ [][NextVar]_vars

\* the amounts 0, 255, 2^64 - 1 and 2^100 with the bits of their encodings:
\* the 4-bit byte length, then that many bytes, most significant first
KnownCoins ==
    { [amount |-> U128Zero, bits |-> <<0, 0, 0, 0>>],
      [amount |-> Ones128(8), bits |-> <<0, 0, 0, 1>> \o Repeat(1, 8)],
      [amount |-> Ones128(64), bits |-> <<1, 0, 0, 0>> \o Repeat(1, 64)],
      [amount |-> Pow128(100),
       bits |-> <<1, 1, 0, 1>> \o <<0, 0, 0, 1, 0, 0, 0, 0>> \o Repeat(0, 96)] }

\* C11: for each amount in {0, 255, 2^64 - 1, 2^100}, store_coins on a fresh
\* Builder succeeds, the built cell holds the 4-bit byte length (0 for zero)
\* followed by that many big-endian bytes, and load_coins on it returns the
\* amount.
C11_CoinsRoundTrip ==
    \A k \in KnownCoins :
        (op.name \in {"store_coins", "built_coins", "load_coins"}
         /\ op.args.amount = k.amount) =>
            /\ ret.ok
            /\ op.name \in {"built_coins", "load_coins"} =>
                  PayloadBits(cell.data, cell.bit_len) = k.bits
            /\ op.name = "load_coins" =>
                  /\ ret.val = k.amount
                  /\ slice.bit_pos = Len(k.bits)

\* 2^100 was stored as 13 bytes after the length prefix and read back
C11_Witness ==
    /\ op.name = "load_coins"
    /\ op.args.amount = Pow128(100)
    /\ ret.ok
    /\ cell.bit_len = 108

\* C12: for every u64 value v and every length-prefix width L in 1..8,
\* whenever store_var_uint(v, L) succeeds, load_var_uint(L) on the built cell
\* returns v and consumes exactly the bits store_var_uint wrote.
C12_VarUintRoundTrip ==
    op.name = "load_var_uint" =>
        /\ ret.ok
        /\ ret.val = op.args.value
        /\ slice.bit_pos = cell.bit_len

\* --------------------------------------- CellBuilder::store_bits, usize bit_len
\* the builder after store_bits' loop has appended the first n bits of bits
store_bits_loop(b, bits, n) ==
    LET newlen == IF n = 0 THEN Len(b.data) ELSE Max2(Len(b.data), ceil8(b.bit_len + n))
    IN [b EXCEPT !.data = [t \in 1..newlen |-> store_bits_byte(b, bits, n, t - 1)],
                 !.bit_len = b.bit_len + n]

\* store_bits with bit_len any usize. self.bit_len + bit_len and bit_len + 7
\* are usize additions: with overflow checks an overflowing one panics, without
\* them it wraps, and the loop then runs until it indexes past the end of bits.
store_bits_usize(b, bits, bit_len, overflow_checks) ==
    LET total == usize_add(b.bit_len, bit_len)
        plus7 == usize_add(7, bit_len)
        required_bytes == BVShr(plus7.value, 3)
    IN IF BVSmall(bit_len) /\ BVNat(bit_len) <= 2 * MAX_CELL_BITS
       THEN store_bits(b, bits, BVNat(bit_len))
       ELSE IF total.overflow /\ overflow_checks THEN Fail(b, Abort)
       ELSE IF BVGreater(total.value, MAX_CELL_BITS) THEN Fail(b, CapacityExceeded)
       ELSE IF plus7.overflow /\ overflow_checks THEN Fail(b, Abort)
       ELSE IF BVGreater(required_bytes, Len(bits)) THEN Fail(b, InsufficientData)
       ELSE Fail(store_bits_loop(b, bits, 8 * Len(bits)), Abort)

\* ------------------------------- CellBuilder at its limits (SpecCellBuilder)
\* A CellBuilder holding some bits and references receives one store_bits or
\* store_reference call.
HeldBits == {0, 1, 7, 8, 9, 500, 1015, 1016, 1022, 1023}
HeldRefs == 0..MAX_CELL_REFS
\* 2^64 - n as a usize, for n in 1..2^30
UsizeMinus(n) == [k \in 0..63 |-> 1 - BV(n - 1)[k]]
StoredBitLens ==
    {BV(n) : n \in {0, 1, 2, 7, 8, 9, 15, 16, 17, 23, 24, 523, 524, 1014, 1015,
                    1022, 1023, 1024, 2047}}
    \cup {[k \in 0..63 |-> IF k = 31 THEN 1 ELSE 0], [k \in 0..63 |-> IF k = 63 THEN 1 ELSE 0]}
    \cup {UsizeMinus(n) : n \in {1, 2, 7, 8, 9, 1015, 1022, 1023, 1024}}
StoredSources == {<<>>, <<165>>, <<165, 60>>, <<255, 0, 129>>, Repeat(195, 128)}
\* a builder holding p bits (1,0,1,0,...) and r references
HeldBuilder(p, r) ==
    [data |-> store_bits(CellBuilder_new, PrefixBytes(p), p).self.data,
     bit_len |-> p,
     references |-> Repeat(LeafCell, r)]

InitCellBuilder ==
    /\ cell = Cell_new
    /\ other = Cell_new
    /\ slice = Slice_new(Cell_new)
    /\ boc = <<>>
    /\ fork = Slice_new(Cell_new)
    /\ lb = LiteBalancer_new(0, 0)
    /\ ret = Ok(<<>>)
    /\ op = NoOp
    /\ env \in {[overflow_checks |-> oc, alloc_ok |-> TRUE] : oc \in BOOLEAN}
    /\ \E p \in HeldBits : \E r \in HeldRefs : builder = HeldBuilder(p, r)

CbStoreBits ==
    /\ op = NoOp
    /\ \E bits \in StoredSources : \E bit_len \in StoredBitLens :
          /\ ret' = store_bits_usize(builder, bits, bit_len, env.overflow_checks)
          /\ op' = [name |-> "store_bits", returned |-> TRUE,
                    args |-> [before |-> builder, bits |-> bits, bit_len |-> bit_len]]
    /\ builder' = ret'.self
    /\ UNCHANGED <<fork, lb, cell, other, slice, boc, env>>

CbStoreReference ==
    /\ op = NoOp
    /\ ret' = store_reference(builder, NodeCell)
    /\ op' = [name |-> "store_reference", returned |-> TRUE,
              args |-> [before |-> builder]]
    /\ builder' = ret'.self
    /\ UNCHANGED <<fork, lb, cell, other, slice, boc, env>>

NextCellBuilder ==
    \/ CbStoreBits
    \/ CbStoreReference
SpecCellBuilder == InitCellBuilder /\ [][NextCellBuilder]_vars

\* C13: on a CellBuilder holding b bits and r references, store_bits of n bits
\* with b + n > 1023 returns the capacity error and store_reference with r = 4
\* returns the capacity error, the builder being exactly as before in both
\* cases; store_bits with b + n <= 1023 and a long enough source appends
\* exactly n bits, most significant bit first.
C13_CapacityAndAppend ==
    /\ op.name = "store_bits" =>
          LET before == op.args.before
              b == before.bit_len
              n == op.args.bit_len
          IN /\ BVGreater(n, MAX_CELL_BITS - b) =>
                   /\ ~ret.ok
                   /\ ret.err = CapacityExceeded
                   /\ builder = before
             /\ (~BVGreater(n, MAX_CELL_BITS - b) /\ 8 * Len(op.args.bits) >= BVNat(n)) =>
                   /\ ret.ok
                   /\ builder.bit_len = b + BVNat(n)
                   /\ PayloadBits(builder.data, builder.bit_len)
                        = PayloadBits(before.data, b) \o PayloadBits(op.args.bits, BVNat(n))
                   /\ builder.references = before.references
    /\ (op.name = "store_reference" /\ Len(op.args.before.references) = MAX_CELL_REFS) =>
          /\ ~ret.ok
          /\ ret.err = CapacityExceeded
          /\ builder = op.args.before

\* ------------------------------------------------- Builder: composite stores
\* Builder::bit_len and Builder::ref_count return a constant.
Builder_bit_len(b) == 0
available_bits(b) == MAX_CELL_BITS - Builder_bit_len(b)
\* a byte capacity that rounds up
available_bytes_ceil(b) == ceil8(available_bits(b))

available_bytes(b) == available_bits(b) \div 8
ref_count(b) == 0
available_refs(b) == MAX_CELL_REFS - ref_count(b)

store_ref(b, c) == store_reference(b, c)

store_maybe_ref(b, c) ==
    IF c # None
    THEN LET r == store_bit(b, TRUE)
         IN IF ~r.ok THEN r ELSE store_ref(r.self, c[1])
    ELSE store_bit(b, FALSE)

store_dict(b, dict) == store_maybe_ref(b, dict)

\* for reference in references { self.store_ref(reference)? }
RECURSIVE store_refs(_, _)
store_refs(r, refs) ==
    IF ~r.ok \/ Len(refs) = 0 THEN r
    ELSE store_refs(store_ref(r.self, Head(refs)), Tail(refs))

store_cell(b, c) ==
    IF ref_count(b) + reference_count(c) > MAX_CELL_REFS THEN Fail(b, CapacityExceeded)
    ELSE store_refs(store_bits(b, c.data, c.bit_len), c.references)

clone_from_current(s) == [cell |-> s.cell, bit_pos |-> s.bit_pos, ref_pos |-> s.ref_pos]

load_reference(s) ==
    IF remaining_refs(s) = 0 THEN Fail(s, MalformedStream)
    ELSE IF s.ref_pos >= Len(s.cell.references) THEN Fail(s, MalformedStream)
    ELSE Done([s EXCEPT !.ref_pos = @ + 1], s.cell.references[s.ref_pos + 1])

\* while temp_slice.remaining_refs() > 0 { self.store_ref(temp_slice.load_reference()?)? }
RECURSIVE store_slice_refs(_, _)
store_slice_refs(r, temp_slice) ==
    IF ~r.ok \/ remaining_refs(temp_slice) = 0 THEN r
    ELSE LET l == load_reference(temp_slice)
         IN IF ~l.ok THEN Fail(r.self, l.err)
            ELSE store_slice_refs(store_ref(r.self, l.val), l.self)

store_slice(b, s) ==
    LET remaining == remaining_bits(s)
        l == load_bits(clone_from_current(s), remaining)
        r == IF remaining = 0 THEN Done(b, <<>>)
             ELSE IF ~l.ok THEN Fail(b, l.err)
             ELSE store_bits(b, l.val, remaining)
    IN store_slice_refs(r, clone_from_current(s))

store_var_int(b, value, length_bits, overflow_checks) ==
    IF value = BVZero THEN store_uint(b, BVZero, length_bits)
    ELSE LET byte_len == ceil8(significant_bits(value, U64_BITS))
             r == store_uint(b, BV(byte_len), length_bits)
         IN IF ~r.ok THEN r
            ELSE store_int(r.self, value, byte_len * 8, overflow_checks)

RECURSIVE store_snake_bytes(_, _)
store_snake_bytes(b, bytes) ==
    IF Len(bytes) = 0 THEN Done(b, <<>>)
    ELSE LET available == available_bytes(b)
         IN IF Len(bytes) <= available THEN store_bytes(b, bytes)
            ELSE LET r == store_bytes(b, SubSeq(bytes, 1, available))
                     next_builder == store_snake_bytes(CellBuilder_new,
                                        SubSeq(bytes, available + 1, Len(bytes)))
                     next == build(next_builder.self)
                 IN IF ~r.ok THEN r
                    ELSE IF ~next_builder.ok THEN Fail(r.self, next_builder.err)
                    ELSE IF ~next.ok THEN Fail(r.self, next.err)
                    ELSE store_ref(r.self, next.val)

\* addr.workchain as i64, for an i8 workchain
i8_as_i64(w) == [k \in 0..63 |-> IF k < 8 THEN Bit((w + 256) % 256, k)
                                  ELSE IF w < 0 THEN 1 ELSE 0]

\* an Address is [workchain, hash_part]
store_address(b, address, overflow_checks) ==
    IF address = None THEN store_bits(b, <<0>>, 2)
    ELSE LET addr == address[1]
             r1 == store_bits(b, <<2>>, 2)
             r2 == store_bit(r1.self, FALSE)
             r3 == store_int(r2.self, i8_as_i64(addr.workchain), 8, overflow_checks)
         IN IF ~r1.ok THEN r1
            ELSE IF ~r2.ok THEN r2
            ELSE IF ~r3.ok THEN r3
            ELSE store_bytes(r3.self, addr.hash_part)

\* an ExternalAddress is [value, bit_len]
store_external_address(b, address) ==
    LET r1 == store_bits(b, <<1>>, 2)
        r2 == store_uint(r1.self, BV(address.bit_len), 9)
    IN IF ~r1.ok THEN r1
       ELSE IF ~r2.ok THEN r2
       ELSE IF address.value # None THEN store_uint(r2.self, address.value[1], address.bit_len)
       ELSE r2

\* ------------------------------------ one Builder store call (SpecBuilder)
\* A Builder that already holds some bits and references receives one store
\* call; afterwards its accessors are read or the cell is built.
BuilderBits == {0, 1, 8, 500, 1016, 1020, 1023}
BuilderRefs == {0, 1, 3, 4}
\* a payload of n bytes: 1, 2, 3, ...
SnakeBytes(n) == [i \in 1..n |-> i % 256]
SnakePayloads == {SnakeBytes(n) : n \in {0, 1, 2, 126, 127, 128, 254, 255, 300}}
CoinArgs == {U128Zero, Ones128(8), Ones128(64), Pow128(100)}
VarUintArgs == {<<BVZero, 4>>, <<BV(66), 4>>, <<BVOnes, 4>>, <<BV(256), 1>>}
VarIntArgs == {<<BVZero, 4>>, <<BV(66), 4>>, <<BVOnes, 4>>}
MaybeRefArgs == {None, Some(LeafCell), Some(NodeCell)}
HashParts == {Zeros(32), Repeat(255, 32), [i \in 1..32 |-> 8 * i - 1]}
AddressArgs ==
    {None} \cup {Some([workchain |-> w, hash_part |-> h]) : w \in {0, -1, 127, -128},
                                                           h \in HashParts}
ExternalAddressArgs ==
    { [value |-> Some(BV(90)), bit_len |-> 8],
      [value |-> Some(BV(5)), bit_len |-> 3],
      [value |-> Some(BVOnes), bit_len |-> 64],
      [value |-> None, bit_len |-> 0],
      [value |-> None, bit_len |-> 5] }
CellArgs == {Cell_new, LeafCell, NodeCell, TopCell, TwinCell,
             build(HeldBuilder(1016, 0)).val}
SliceArgs == {Slice_new(c) : c \in CellArgs}
             \cup {[cell |-> TopCell, bit_pos |-> 2, ref_pos |-> 1]}

InitBuilder ==
    /\ cell = Cell_new
    /\ other = Cell_new
    /\ slice = Slice_new(Cell_new)
    /\ boc = <<>>
    /\ fork = Slice_new(Cell_new)
    /\ lb = LiteBalancer_new(0, 0)
    /\ ret = Ok(<<>>)
    /\ op = NoOp
    /\ env \in {[overflow_checks |-> oc, alloc_ok |-> TRUE] : oc \in BOOLEAN}
    /\ \E p \in BuilderBits : \E r \in BuilderRefs : builder = HeldBuilder(p, r)

\* the call name(arg) on the current builder returned r
Stored(name, arg, r) ==
    /\ op = NoOp
    /\ ret' = r
    /\ builder' = r.self
    /\ op' = [name |-> name, returned |-> TRUE, args |-> [before |-> builder, arg |-> arg]]
    /\ UNCHANGED <<fork, lb, cell, other, slice, boc, env>>

BuilderStoreCoins ==
    \E amount \in CoinArgs : Stored("store_coins", amount, store_coins(builder, amount))
BuilderStoreVarUint ==
    \E a \in VarUintArgs : Stored("store_var_uint", a, store_var_uint(builder, a[1], a[2]))
BuilderStoreVarInt ==
    \E a \in VarIntArgs :
        Stored("store_var_int", a, store_var_int(builder, a[1], a[2], env.overflow_checks))
BuilderStoreMaybeRef ==
    \E c \in MaybeRefArgs : Stored("store_maybe_ref", c, store_maybe_ref(builder, c))
BuilderStoreDict ==
    \E c \in MaybeRefArgs : Stored("store_dict", c, store_dict(builder, c))
BuilderStoreAddress ==
    \E a \in AddressArgs :
        Stored("store_address", a, store_address(builder, a, env.overflow_checks))
BuilderStoreExternalAddress ==
    \E a \in ExternalAddressArgs :
        Stored("store_external_address", a, store_external_address(builder, a))
BuilderStoreCell ==
    \E c \in CellArgs : Stored("store_cell", c, store_cell(builder, c))
BuilderStoreSlice ==
    \E s \in SliceArgs : Stored("store_slice", s, store_slice(builder, s))
BuilderStoreSnakeBytes ==
    \E p \in SnakePayloads : Stored("store_snake_bytes", p, store_snake_bytes(builder, p))

BuilderStoreNames ==
    {"store_coins", "store_var_uint", "store_var_int", "store_maybe_ref", "store_dict",
     "store_address", "store_external_address", "store_cell", "store_slice",
     "store_snake_bytes"}

\* bit_len(), available_bits(), ref_count() and available_refs() after a store
BuilderAccessors ==
    /\ op.name \in BuilderStoreNames
    /\ ret.err # Abort
    /\ ret' = Ok([bit_len |-> Builder_bit_len(builder),
                  available_bits |-> available_bits(builder),
                  ref_count |-> ref_count(builder),
                  available_refs |-> available_refs(builder)])
    /\ op' = [op EXCEPT !.name = "accessors"]
    /\ UNCHANGED <<fork, lb, cell, other, builder, slice, boc, env>>

BuilderBuild ==
    /\ op.name \in BuilderStoreNames
    /\ ret.err # Abort
    /\ ret' = build(builder)
    /\ cell' = IF ret'.ok THEN ret'.val ELSE cell
    /\ op' = [op EXCEPT !.name = "build"]
    /\ UNCHANGED <<fork, lb, other, builder, slice, boc, env>>

NextBuilder ==
    \/ BuilderStoreCoins
    \/ BuilderStoreVarUint
    \/ BuilderStoreVarInt
    \/ BuilderStoreMaybeRef
    \/ BuilderStoreDict
    \/ BuilderStoreAddress
    \/ BuilderStoreExternalAddress
    \/ BuilderStoreCell
    \/ BuilderStoreSlice
    \/ BuilderStoreSnakeBytes
    \/ BuilderAccessors
    \/ BuilderBuild
SpecBuilder == InitBuilder /\ [][NextBuilder]_vars

\* C14: a Builder store call that returns an error is a no-op: the cell that
\* build() would produce has the same bits and the same references as before
\* the failing call.
C14_FailedStoreIsNoOp ==
    (op.name \in BuilderStoreNames /\ ~ret.ok /\ ret.err # Abort) =>
        /\ builder.bit_len = op.args.before.bit_len
        /\ PayloadBits(builder.data, builder.bit_len)
             = PayloadBits(op.args.before.data, op.args.before.bit_len)
        /\ builder.references = op.args.before.references

\* the bytes of a snake chain: the bytes of the cell, then those of the chain
\* behind its last reference
RECURSIVE ChainBytes(_)
ChainBytes(c) ==
    SubSeq(c.data, 1, c.bit_len \div 8)
      \o (IF Len(c.references) = 0 THEN <<>>
          ELSE ChainBytes(c.references[Len(c.references)]))
\* the bits a call appended to the builder
AppendedBits ==
    SubSeq(PayloadBits(builder.data, builder.bit_len),
           op.args.before.bit_len + 1, builder.bit_len)
\* bytes as bits, most significant bit first
BytesBits(bytes) == PayloadBits(bytes, 8 * Len(bytes))

\* C16: for a Builder holding b bits and fewer than 4 references and a payload
\* longer than floor((1023 - b) / 8) bytes, store_snake_bytes succeeds, stores
\* in this builder exactly the prefix of floor((1023 - b) / 8) bytes and
\* snake-encodes the remainder into a new cell stored as one reference.
C16_SnakeIntoHeldBuilder ==
    LET before == op.args.before
        fits == (MAX_CELL_BITS - before.bit_len) \div 8
        p == op.args.arg
    IN (op.name = "store_snake_bytes" /\ Len(before.references) < MAX_CELL_REFS
        /\ Len(p) > fits) =>
           /\ ret.ok
           /\ builder.bit_len = before.bit_len + 8 * fits
           /\ AppendedBits = BytesBits(SubSeq(p, 1, fits))
           /\ Len(builder.references) = Len(before.references) + 1
           /\ ChainBytes(builder.references[Len(builder.references)])
                = SubSeq(p, fits + 1, Len(p))

\* C17: after store operations on a Builder, bit_len() is the number of bits
\* stored so far, available_bits() is 1023 minus that number, ref_count() is
\* the number of references stored so far and available_refs() is 4 minus
\* that number.
C17_AccessorsTrackContent ==
    op.name = "accessors" =>
        /\ ret.val.bit_len = builder.bit_len
        /\ ret.val.bit_len = build(builder).val.bit_len
        /\ ret.val.available_bits = MAX_CELL_BITS - builder.bit_len
        /\ ret.val.ref_count = Len(builder.references)
        /\ ret.val.available_refs = MAX_CELL_REFS - Len(builder.references)

\* the low n bits of a 64-bit value, most significant first
ValueBits(v, n) == [i \in 1..n |-> v[n - i]]

\* C18: store_address(None) appends exactly the bits 0,0; store_address(Some(a))
\* appends exactly 267 bits: 1,0, a 0 bit, the workchain as 8-bit two's
\* complement and the 256 hash bits; store_external_address appends 0,1, the
\* 9-bit bit_len and exactly bit_len payload bits.
C18_AddressEncodings ==
    /\ (op.name = "store_address" /\ ret.ok) =>
          IF op.args.arg = None THEN AppendedBits = <<0, 0>>
          ELSE LET a == op.args.arg[1]
               IN /\ Len(AppendedBits) = 267
                  /\ AppendedBits = <<1, 0, 0>> \o ValueBits(i8_as_i64(a.workchain), 8)
                                      \o BytesBits(a.hash_part)
    /\ (op.name = "store_external_address" /\ ret.ok) =>
          LET a == op.args.arg
          IN /\ Len(AppendedBits) = 11 + a.bit_len
             /\ SubSeq(AppendedBits, 1, 11) = <<0, 1>> \o ValueBits(BV(a.bit_len), 9)
             /\ a.value # None =>
                   SubSeq(AppendedBits, 12, 11 + a.bit_len) = ValueBits(a.value[1], a.bit_len)

\* ------------------------------ store_snake_bytes, fresh Builder (SpecSnake)
\* A fresh Builder stores one payload with store_snake_bytes and is built.
MaxSnakeLen == 300
\* payloads of n bytes: 1, 2, 3, ... and 255, 254, 253, ...
SnakeInputs ==
    {SnakeBytes(n) : n \in 0..MaxSnakeLen}
    \cup {[i \in 1..n |-> 255 - (i % 251)] : n \in 1..MaxSnakeLen}

InitSnake ==
    /\ cell = Cell_new
    /\ other = Cell_new
    /\ builder = CellBuilder_new
    /\ slice = Slice_new(Cell_new)
    /\ boc = <<>>
    /\ fork = Slice_new(Cell_new)
    /\ lb = LiteBalancer_new(0, 0)
    /\ ret = Ok(<<>>)
    /\ op = NoOp
    /\ env = DefaultEnv

SnakeStore ==
    /\ op = NoOp
    /\ \E p \in SnakeInputs :
          /\ ret' = store_snake_bytes(builder, p)
          /\ op' = [name |-> "store_snake_bytes", returned |-> TRUE, args |-> [p |-> p]]
    /\ builder' = ret'.self
    /\ UNCHANGED <<fork, lb, cell, other, slice, boc, env>>

SnakeBuild ==
    /\ op.name = "store_snake_bytes"
    /\ ret.ok
    /\ ret' = build(builder)
    /\ cell' = IF ret'.ok THEN ret'.val ELSE cell
    /\ op' = [op EXCEPT !.name = "build"]
    /\ UNCHANGED <<fork, lb, other, builder, slice, boc, env>>

NextSnake ==
    \/ SnakeStore
    \/ SnakeBuild
SpecSnake == InitSnake /\ [][NextSnake]_vars

\* every cell of the chain holds whole bytes and at most one reference
RECURSIVE SingleChain(_)
SingleChain(c) ==
    /\ c.bit_len % 8 = 0
    /\ Len(c.references) <= 1
    /\ Len(c.references) = 1 => SingleChain(c.references[1])

\* C15: store_snake_bytes(p) into a fresh Builder succeeds; if p has more than
\* 127 bytes the built cell has reference_count() > 0; and the bytes of the
\* root cell followed by those of each cell along the single reference chain
\* are exactly p.
C15_SnakeRoundTrip ==
    /\ op.name = "store_snake_bytes" => ret.ok
    /\ op.name = "build" =>
          /\ ret.ok
          /\ Len(op.args.p) > 127 => reference_count(cell) > 0
          /\ SingleChain(cell)
          /\ ChainBytes(cell) = op.args.p

\* a payload of 255 bytes was built into a chain of three cells
C15_Witness ==
    /\ op.name = "build"
    /\ ret.ok
    /\ Len(op.args.p) = 255
    /\ reference_count(cell) = 1
    /\ reference_count(cell.references[1]) = 1
    /\ cell.references[1].references[1].bit_len = 8

\* ----------------------------------------------- Slice: the remaining calls
reset(s) == [s EXCEPT !.bit_pos = 0, !.ref_pos = 0]
load_remaining_bits(s) == load_bits(s, remaining_bits(s))
\* while self.remaining_refs() > 0 { refs.push(self.load_reference()?) }
RECURSIVE load_remaining_refs_loop(_, _)
load_remaining_refs_loop(s, refs) ==
    IF remaining_refs(s) = 0 THEN Done(s, refs)
    ELSE LET l == load_reference(s)
         IN IF ~l.ok THEN l
            ELSE load_remaining_refs_loop(l.self, Append(refs, l.val))
load_remaining_refs(s) == load_remaining_refs_loop(s, <<>>)

\* ------------------------------------------- calls on one Slice (SpecSlice)
\* One Slice over a cell receives any sequence of its public calls.
\* a cell built from store_coins(255), store_var_uint(66, 4) and two references
CoinsCell ==
    build(store_refs(store_var_uint(store_coins(CellBuilder_new, Ones128(8)).self, BV(66), 4),
                     <<LeafCell, NodeCell>>).self).val
SliceCells == {TopCell, CoinsCell, with_data(<<255, 1>>, 12).val}
LoadBitsArgs == {0, 1, 3, 8}
LoadUintArgs == {1, 4, 9}
SkipBitsArgs == {0, 1, 5, 30}
SkipRefsArgs == {0, 1, 3}

InitSlice ==
    /\ \E c \in SliceCells : cell = c /\ slice = Slice_new(c)
    /\ other = Cell_new
    /\ builder = CellBuilder_new
    /\ boc = <<>>
    /\ fork = None
    /\ lb = LiteBalancer_new(0, 0)
    /\ ret = Ok(<<>>)
    /\ op = NoOp
    /\ env \in {[overflow_checks |-> oc, alloc_ok |-> TRUE] : oc \in BOOLEAN}

\* the call name on the slice returned r; a panic ends the sequence
SliceCall(name, r) ==
    /\ ret.err # Abort
    /\ ret' = [ok |-> r.ok, err |-> r.err, val |-> r.val]
    /\ slice' = r.self
    /\ op' = [name |-> name, returned |-> TRUE,
              args |-> [from |-> <<slice.bit_pos, slice.ref_pos>>]]
    /\ UNCHANGED <<fork, lb, cell, other, builder, boc, env>>

SliceLoadBit == SliceCall("load_bit", load_bit(slice))
SliceLoadBits == \E n \in LoadBitsArgs : SliceCall("load_bits", load_bits(slice, n))
SliceLoadUint == \E bits \in LoadUintArgs : SliceCall("load_uint", load_uint(slice, bits))
SliceLoadInt ==
    \E bits \in LoadUintArgs :
        SliceCall("load_int", load_int(slice, bits, env.overflow_checks))
SliceLoadReference == SliceCall("load_reference", load_reference(slice))
SliceSkipBits == \E n \in SkipBitsArgs : SliceCall("skip_bits", skip_bits(slice, n))
SliceSkipRefs == \E n \in SkipRefsArgs : SliceCall("skip_refs", skip_refs(slice, n))
SliceReset == SliceCall("reset", Done(reset(slice), <<>>))
SliceCloneFromCurrent ==
    SliceCall("clone_from_current", Done(slice, clone_from_current(slice)))
SliceLoadRemainingBits == SliceCall("load_remaining_bits", load_remaining_bits(slice))
SliceLoadRemainingRefs == SliceCall("load_remaining_refs", load_remaining_refs(slice))
SliceLoadVarUint == SliceCall("load_var_uint", load_var_uint(slice, 4))
SliceLoadCoins == SliceCall("load_coins", load_coins(slice))

NextSlice ==
    \/ SliceLoadBit
    \/ SliceLoadBits
    \/ SliceLoadUint
    \/ SliceLoadInt
    \/ SliceLoadReference
    \/ SliceSkipBits
    \/ SliceSkipRefs
    \/ SliceReset
    \/ SliceCloneFromCurrent
    \/ SliceLoadRemainingBits
    \/ SliceLoadRemainingRefs
    \/ SliceLoadVarUint
    \/ SliceLoadCoins
SpecSlice == InitSlice /\ [][NextSlice]_vars

\* C19: over any sequence of public operations on one Slice, bit_pos and
\* ref_pos never decrease: every operation leaves each of them equal or
\* larger than before.
C19_PositionsNeverDecrease ==
    [][slice'.bit_pos >= slice.bit_pos /\ slice'.ref_pos >= slice.ref_pos]_vars

\* C19 (amended): every operation on a Slice other than reset() leaves bit_pos
\* and ref_pos equal or larger than before, and never past the cell's bit_len
\* and reference count; reset() sets both to 0.
C19_OnlyResetRewinds ==
    [][/\ op'.name # "reset" =>
             /\ slice'.bit_pos >= slice.bit_pos
             /\ slice'.ref_pos >= slice.ref_pos
       /\ op'.name = "reset" => (slice'.bit_pos = 0 /\ slice'.ref_pos = 0)
       /\ slice'.bit_pos <= cell.bit_len
       /\ slice'.ref_pos <= Len(cell.references)
       /\ slice'.cell = cell]_vars

\* a slice that had read all 24 bits and both references of its cell was reset
C19_Witness ==
    /\ op.name = "reset"
    /\ op.args.from = <<24, 2>>
    /\ slice.bit_pos = 0
    /\ slice.ref_pos = 0

\* ------------------------------------------- deserialize_boc: accepted streams
\* The stream of TopCell without CRC, with one byte replaced: streams whose
\* widths, counts, root index or reference indices are out of range.
PlainStream == serialize_boc(TopCell, FALSE).val
AlteredStreams ==
    {[PlainStream EXCEPT ![i] = v] : i \in 1..Len(PlainStream), v \in Byte}
    \cup {<<0, 1, 2, 3, 1, 1>>, SubSeq(PlainStream, 1, 3)}

BocReceiveAltered ==
    /\ op = NoOp
    /\ boc' \in AlteredStreams
    /\ op' = [name |-> "receive", args |-> <<>>, returned |-> TRUE]
    /\ UNCHANGED <<fork, lb, cell, other, builder, slice, ret, env>>

NextBocAltered ==
    \/ BocReceiveAltered
    \/ BocReceive
    \/ BocDeserialize
SpecBocAltered == InitBoc /\ [][NextBocAltered]_vars

\* the big-endian number in width bytes of data after the first pos bytes;
\* 2^30 stands for every value that does not fit in three bytes
HeaderField(data, pos, width) ==
    IF \E i \in 1..(width - 3) : data[pos + i] # 0 THEN 2 ^ 30
    ELSE LET b(k) == IF width > k THEN data[pos + width - k] ELSE 0
         IN b(0) + 256 * b(1) + 65536 * b(2)

\* the reference indices recorded in the first n cell records of region,
\* from position pos on
RECURSIVE RecordedRefs(_, _, _)
RecordedRefs(region, pos, n) ==
    IF n = 0 \/ pos + 2 > Len(region) THEN {}
    ELSE LET refs == region[pos + 1] % 8
             size == (region[pos + 2] + 1) \div 2
             next == pos + 2 + size + refs
         IN {region[i] : i \in (pos + 2 + size + 1)..(IF next <= Len(region) THEN next
                                                     ELSE Len(region))}
            \cup RecordedRefs(region, next, n - 1)

\* a stream with the generic magic, widths in 1..8, one root, its cell records
\* inside the input, and root and reference indices below the cell count
ValidBoc(data) ==
    /\ Len(data) >= 6
    /\ SubSeq(data, 1, 4) = BOC_GENERIC_MAGIC
    /\ LET size_bytes == data[5] % 8
           offset_bytes == data[6]
           cells_start == 6 + 4 * size_bytes + offset_bytes
       IN /\ size_bytes \in 1..8
          /\ offset_bytes \in 1..8
          /\ cells_start <= Len(data)
          /\ LET cell_count == HeaderField(data, 6, size_bytes)
                 roots_count == HeaderField(data, 6 + size_bytes, size_bytes)
                 cells_size == HeaderField(data, 6 + 3 * size_bytes, offset_bytes)
                 root_index == HeaderField(data, 6 + 3 * size_bytes + offset_bytes, size_bytes)
             IN /\ roots_count = 1
                /\ cells_start + cells_size <= Len(data)
                /\ root_index < cell_count
                /\ \A x \in RecordedRefs(SubSeq(data, cells_start + 1,
                                                cells_start + cells_size), 0, cell_count) :
                       x < cell_count

\* C20: deserialize_boc returns Ok only when the first four bytes are the
\* generic magic, size_bytes and offset_bytes are each in 1..8, roots_count is
\* 1, the cell-records region of cells_size bytes lies inside the input,
\* root_index < cell_count and every recorded reference index is < cell_count;
\* the indexed magics, any other magic and inputs shorter than 4 bytes yield
\* an error.
C20_OkOnlyForValidStreams ==
    op.name = "deserialize_boc" =>
        /\ ret.ok => ValidBoc(boc)
        /\ (Len(boc) < 4 \/ SubSeq(boc, 1, 4) # BOC_GENERIC_MAGIC) => ~ret.ok

\* the stream of TopCell, three cells with references between them, was
\* accepted with one of its bytes replaced
C20_Witness ==
    /\ op.name = "deserialize_boc"
    /\ ret.ok
    /\ boc # PlainStream
    /\ Len(boc) = Len(PlainStream)
    /\ Len(ret.val.references) = 2

\* C29: for every u128 amount a, if store_coins(a) on a fresh Builder returns
\* Ok, the 4-bit length prefix it wrote equals the number of value bytes it
\* wrote and load_coins() on the built cell returns a.
C29_CoinsPrefixMatchesBytes ==
    /\ (op.name = "store_coins" /\ ret.ok) =>
          LET prefix == PayloadBits(builder.data, 4)
          IN 8 * prefix[1] + 4 * prefix[2] + 2 * prefix[3] + prefix[4]
               = (builder.bit_len - 4) \div 8
    /\ op.name = "load_coins" => (ret.ok /\ ret.val = op.args.amount)

\* C28: every Slice read that returns an error leaves bit_pos and ref_pos
\* exactly as before the call.
C28_FailedReadKeepsPosition ==
    (op.name \in {"load_bit", "load_bits", "load_uint", "load_int", "load_reference",
                  "skip_bits", "skip_refs", "load_var_uint", "load_coins",
                  "load_remaining_bits", "load_remaining_refs"}
     /\ ~ret.ok /\ ret.err # Abort) =>
        <<slice.bit_pos, slice.ref_pos>> = op.args.from

\* ------------------------------------- a Slice and its fork (SpecFork)
\* One Slice over a cell receives any sequence of its public calls; at any
\* point clone_from_current makes a fork of it, which then receives calls of
\* its own.
\* a cell built from store_coins(5) and one reference
ForkCell == build(store_ref(store_coins(CellBuilder_new, Ones128(3)).self, LeafCell).self).val
ForkLoadBitsArgs == {1, 8}

InitFork ==
    /\ cell = ForkCell
    /\ slice = Slice_new(ForkCell)
    /\ other = Cell_new
    /\ builder = CellBuilder_new
    /\ boc = <<>>
    /\ fork = None
    /\ lb = LiteBalancer_new(0, 0)
    /\ ret = Ok(<<>>)
    /\ op = NoOp
    /\ env = [overflow_checks |-> TRUE, alloc_ok |-> TRUE]

\* clone_from_current hands the caller a second Slice, kept in fork
ForkMake ==
    /\ ret.err # Abort
    /\ ret' = Ok(clone_from_current(slice))
    /\ fork' = Some(clone_from_current(slice))
    /\ op' = [name |-> "fork", returned |-> TRUE,
              args |-> [from |-> <<slice.bit_pos, slice.ref_pos>>]]
    /\ UNCHANGED <<lb, cell, other, builder, slice, boc, env>>

\* the call name on the fork returned r
ForkCall(name, r) ==
    /\ ret.err # Abort
    /\ fork # None
    /\ ret' = [ok |-> r.ok, err |-> r.err, val |-> r.val]
    /\ fork' = Some(r.self)
    /\ op' = [name |-> name, returned |-> TRUE,
              args |-> [from |-> <<fork[1].bit_pos, fork[1].ref_pos>>]]
    /\ UNCHANGED <<lb, cell, other, builder, slice, boc, env>>
ForkLoadBits == \E n \in ForkLoadBitsArgs : ForkCall("fork.load_bits", load_bits(fork[1], n))
ForkLoadReference == ForkCall("fork.load_reference", load_reference(fork[1]))
ForkSkipRefs == \E n \in SkipRefsArgs : ForkCall("fork.skip_refs", skip_refs(fork[1], n))
ForkLoadCoins == ForkCall("fork.load_coins", load_coins(fork[1]))
ForkReset == ForkCall("fork.reset", Done(reset(fork[1]), <<>>))

NextFork ==
    \/ NextSlice
    \/ ForkMake
    \/ ForkLoadBits
    \/ ForkLoadReference
    \/ ForkSkipRefs
    \/ ForkLoadCoins
    \/ ForkReset
SpecFork == InitFork /\ [][NextFork]_vars

\* ------------------------------------------------------ C27: Slice cursors
\* the cursor s stands inside the cell c it was made on, and its remaining_*
\* answers are what is left of c
CursorInside(s, c) ==
    /\ s.cell = c
    /\ s.bit_pos \in 0..c.bit_len
    /\ s.ref_pos \in 0..reference_count(c)
    /\ remaining_bits(s) = c.bit_len - s.bit_pos
    /\ remaining_refs(s) = reference_count(c) - s.ref_pos

\* C27: after any sequence of Slice operations, successful or failing,
\* 0 <= bit_pos <= bit_len and 0 <= ref_pos <= reference_count,
\* remaining_bits() = bit_len - bit_pos and remaining_refs() =
\* reference_count - ref_pos, for the Slice and for a fork made by
\* clone_from_current; no operation changes the underlying Cell, an operation
\* on the fork leaves the Slice's positions alone, and an operation on the
\* Slice leaves the fork's positions alone.
C27_CursorsStayInside ==
    [][/\ cell' = cell
       /\ CursorInside(slice', cell)
       /\ fork' # None => CursorInside(fork'[1], cell)
       /\ op'.name \in {"fork.load_bits", "fork.load_reference", "fork.skip_refs",
                        "fork.load_coins", "fork.reset"} => slice' = slice
       /\ op'.name \notin {"fork.load_bits", "fork.load_reference", "fork.skip_refs",
                           "fork.load_coins", "fork.reset", "fork"}
             => fork' = fork
       /\ op'.name = "fork" =>
             /\ slice' = slice
             /\ fork'[1].bit_pos = slice.bit_pos
             /\ fork'[1].ref_pos = slice.ref_pos]_vars

\* a fork reached the end of the 12 bits and the reference while the Slice
\* it was made from went back to the start
C27_Witness ==
    /\ op.name = "reset"
    /\ fork # None
    /\ fork[1].bit_pos = 12
    /\ fork[1].ref_pos = 1
    /\ slice.bit_pos = 0
    /\ slice.ref_pos = 0

\* ------------------------------------- one cell record (SpecRecord)
\* A cell without references is written as its record, the two descriptors
\* followed by serialize_data(), and the first pass of parse_cells reads the
\* record back.  The cells are built by CellBuilder or made by with_data.
RecordBitLens == {0, 1, 4, 7, 8, 9, 15, 16, 1015, 1016, 1017, 1023}
RecordFills == {0, 165, 255}
BuiltRecordCells ==
    {build(store_bits(CellBuilder_new, Repeat(fill, ceil8(n)), n).self).val :
        n \in RecordBitLens, fill \in RecordFills}
WithDataRecordCells ==
    {with_data(Repeat(fill, ceil8(n) + extra), n).val :
        n \in {0, 1, 4, 7, 8, 9}, fill \in RecordFills, extra \in {0, 1}}
RecordCells == BuiltRecordCells \cup WithDataRecordCells

InitRecord ==
    /\ cell \in RecordCells
    /\ other = Cell_new
    /\ builder = CellBuilder_new
    /\ slice = Slice_new(Cell_new)
    /\ boc = <<>>
    /\ fork = None
    /\ lb = LiteBalancer_new(0, 0)
    /\ ret = Ok(<<>>)
    /\ op = NoOp
    /\ env = DefaultEnv

RecordSerialize ==
    /\ op.name = "none"
    /\ ret' = serialize_cell(cell, <<>>)
    /\ boc' = ret'.val
    /\ op' = [name |-> "serialize_cell", returned |-> TRUE, args |-> <<>>]
    /\ UNCHANGED <<fork, lb, cell, other, builder, slice, env>>

RecordParse ==
    /\ op.name = "serialize_cell"
    /\ ret' = parse_cell_record(boc, 0)
    /\ other' = IF ret'.ok THEN ret'.val.cell ELSE other
    /\ op' = [name |-> "parse_cell_record", returned |-> TRUE, args |-> <<>>]
    /\ UNCHANGED <<fork, lb, cell, builder, slice, boc, env>>

NextRecord == RecordSerialize \/ RecordParse
SpecRecord == InitRecord /\ [][NextRecord]_vars

\* C22: for every cell with bit_len b in 0..=1023, serialize_data() has
\* exactly ceil(b/8) bytes, its first b bits are the payload, when b is not a
\* multiple of 8 the bit right after the payload is 1 and all later bits of
\* the last byte are 0, and the parser applied to the cell's record (d2 plus
\* those bytes) recovers bit_len = b and the same b payload bits.
C22_MarkerAndRecovery ==
    LET b == cell.bit_len
        bytes == serialize_data(cell)
    IN /\ Len(bytes) = ceil8(b)
       /\ PayloadBits(bytes, b) = PayloadBits(cell.data, b)
       /\ b % 8 # 0 =>
             /\ BitAt(bytes, b) = 1
             /\ \A i \in (b + 1)..(8 * ceil8(b) - 1) : BitAt(bytes, i) = 0
       /\ op.name = "parse_cell_record" =>
             /\ ret.ok
             /\ other.bit_len = b
             /\ PayloadBits(other.data, b) = PayloadBits(cell.data, b)

\* ------------------------------------- serialize_boc on DAGs (SpecCollect)
\* A caller serializes a cell whose references are drawn, with repetition,
\* from cells that share sub-cells among themselves.
CollectChildren == {LeafCell, NodeCell, TopCell, TwinCell}
MaxCollectRefs == 3
CollectRoots ==
    {add_references(with_data(<<7>>, 8), refs).val :
        refs \in UNION {[1..n -> CollectChildren] : n \in 0..MaxCollectRefs}}

InitCollect ==
    /\ cell \in CollectRoots
    /\ other = Cell_new
    /\ builder = CellBuilder_new
    /\ slice = Slice_new(Cell_new)
    /\ boc = <<>>
    /\ fork = None
    /\ lb = LiteBalancer_new(0, 0)
    /\ ret = Ok(<<>>)
    /\ op = NoOp
    /\ env = DefaultEnv

CollectSerialize ==
    /\ op = NoOp
    /\ \E has_crc32 \in BOOLEAN :
          /\ ret' = serialize_boc(cell, has_crc32)
          /\ boc' = IF ret'.ok THEN ret'.val ELSE boc
          /\ op' = [name |-> "serialize_boc", args |-> <<has_crc32>>, returned |-> TRUE]
    /\ UNCHANGED <<fork, lb, cell, other, builder, slice, env>>

NextCollect == CollectSerialize
SpecCollect == InitCollect /\ [][NextCollect]_vars

\* the hashes of c and of every cell reachable from it
RECURSIVE ReachableHashes(_)
ReachableHashes(c) ==
    {hash(c)} \cup UNION {ReachableHashes(c.references[i]) : i \in 1..Len(c.references)}

\* C23: for every cell DAG given to serialize_boc, the collected cell list
\* contains each distinct content hash exactly once, every cell's references
\* sit at strictly lower indices than the cell itself, the root_index written
\* to the header is the index of the record whose hash is the root's, and
\* serialize_cell never fails to find a reference in the index map.
C23_PostOrderDedup ==
    LET cells == collect_cells(cell)
        n == Len(cells)
    IN /\ {hash(cells[i]) : i \in 1..n} = ReachableHashes(cell)
       /\ \A i, j \in 1..n : i # j => hash(cells[i]) # hash(cells[j])
       /\ \A i \in 1..n : \A k \in 1..Len(cells[i].references) :
             \E j \in 1..(i - 1) : hash(cells[j]) = hash(cells[i].references[k])
       /\ \A i \in 1..n :
             serialize_cell(cells[i], [j \in 1..i |-> cell_hash(cells[j])]).ok
       /\ op.name = "serialize_boc" =>
             /\ ret.ok
             /\ LET size_bytes == boc[5] % 8
                    root_index == HeaderField(boc, 6 + 3 * size_bytes + boc[6], size_bytes)
                IN /\ root_index < n
                   /\ hash(cells[root_index + 1]) = hash(cell)

\* a root with references to TopCell, NodeCell and TopCell again was
\* serialized: four records for the root, TopCell, NodeCell and LeafCell
C23_Witness ==
    /\ op.name = "serialize_boc"
    /\ ret.ok
    /\ Len(cell.references) = 3
    /\ cell.references[1] = TopCell
    /\ cell.references[2] = NodeCell
    /\ cell.references[3] = TopCell
    /\ Len(collect_cells(cell)) = 4
    /\ boc[7] = 4

\* ------------------------------- parse_cells and record order (SpecOrder)
\* A caller parses streams of OrderCells one-byte cells without CRC whose
\* records list any reference indices below the cell count, so that a record
\* may stand before or after the records it refers to.
OrderIndices == {0, 1, 2}
OrderCells == Cardinality(OrderIndices)
MaxOrderRefs == 2
OrderRefLists == UNION {[1..k -> OrderIndices] : k \in 0..MaxOrderRefs}
OrderRecord(i, refs) == <<Len(refs), 2, 160 + i>> \o refs
OrderRecords(refs) == Concat([i \in 1..OrderCells |-> OrderRecord(i, refs[i])])
OrderStream(refs) ==
    BOC_GENERIC_MAGIC \o <<1, 1, OrderCells, 1, 0, Len(OrderRecords(refs)), 0>>
    \o OrderRecords(refs)

InitOrder ==
    /\ cell = Cell_new
    /\ other = Cell_new
    /\ builder = CellBuilder_new
    /\ slice = Slice_new(Cell_new)
    /\ \E refs \in [1..OrderCells -> OrderRefLists] :
          /\ boc = OrderStream(refs)
          /\ op = Call("deserialize_boc", [refs |-> refs])
    /\ fork = None
    /\ lb = LiteBalancer_new(0, 0)
    /\ ret = Ok(<<>>)
    /\ env = DefaultEnv

OrderDeserialize ==
    /\ op.name = "deserialize_boc" /\ ~op.returned
    /\ ret' = deserialize_boc(boc, env)
    /\ cell' = IF ret'.ok THEN ret'.val ELSE cell
    /\ op' = [op EXCEPT !.returned = TRUE]
    /\ UNCHANGED <<fork, lb, other, builder, slice, boc, env>>

NextOrder == OrderDeserialize
SpecOrder == InitOrder /\ [][NextOrder]_vars

\* C24: for every stream that deserialize_boc accepts, whatever the order of
\* the cell records, each resulting cell i whose record lists reference
\* indices r1..rk has exactly k references and its j-th reference is
\* hash-equal to the final resulting cell at index rj.
C24_ReferencesAreFinalCells ==
    (Returned("deserialize_boc") /\ ret.ok) =>
        LET cells == parse_cells(OrderRecords(op.args.refs), BV(OrderCells), env).val
        IN /\ hash(ret.val) = hash(cells[1])
           /\ \A i \in 1..OrderCells :
                 /\ Len(cells[i].references) = Len(op.args.refs[i])
                 /\ \A j \in 1..Len(op.args.refs[i]) :
                       hash(cells[i].references[j]) = hash(cells[op.args.refs[i][j] + 1])

\* ------------------------------------- LiteBalancer callers (SpecBalancer)
\* One owner of a LiteBalancer calls start_up, close_all and the request
\* methods one after the other (they take &mut self); the health checker
\* task runs beside them; each peer is healthy or not, and changes at any
\* time.  A healthy peer answers a request with a response or with an error
\* of the server, an unhealthy one with a connection error (AdnlError).
\* op is the call in progress: pc "loop" stands at the head of the retry
\* loop, pc "await" waits for the answer of op.peer.
BalancerPeers == {0, 1}
Timeouts == {100}
ElapsedMs == {20}
RetryLimits == {1, 2}
MaxRequests == 3
RequestMethods == {"get_masterchain_info", "send_message"}
Answers(p) == IF p \in env.healthy THEN {"response", "server_error"} ELSE {"adnl_error"}
TotalRequests(b) ==
    LET RECURSIVE Sum(_)
        Sum(ps) == IF ps = {} THEN 0
                   ELSE LET p == CHOOSE q \in ps : TRUE
                        IN b.peer_stats[p].total_requests + Sum(ps \ {p})
    IN Sum(DOMAIN b.peer_stats)
Idle == op.returned

InitBalancer ==
    /\ cell = Cell_new
    /\ other = Cell_new
    /\ builder = CellBuilder_new
    /\ slice = Slice_new(Cell_new)
    /\ boc = <<>>
    /\ fork = None
    /\ \E t \in Timeouts, r \in RetryLimits :
          lb = [LiteBalancer_new(Cardinality(BalancerPeers), t) EXCEPT !.max_retries = r]
    /\ ret = Ok(<<>>)
    /\ op = NoOp
    /\ env = [overflow_checks |-> TRUE, alloc_ok |-> TRUE, healthy |-> BalancerPeers]

\* a peer stops or starts answering
PeerHealth ==
    /\ \E p \in BalancerPeers :
          env' = [env EXCEPT !.healthy = IF p \in @ THEN @ \ {p} ELSE @ \cup {p}]
    /\ UNCHANGED <<cell, other, builder, slice, boc, ret, op, fork, lb>>

\* start_up: the peers that answer check_archive are the healthy ones that
\* keep old blocks
LbStartUp ==
    /\ Idle
    /\ \E archives \in SUBSET env.healthy :
          lb' = start_up(lb, archives)
    /\ ret' = Ok(<<>>)
    /\ op' = [name |-> "start_up", returned |-> TRUE, args |-> <<>>]
    /\ UNCHANGED <<cell, other, builder, slice, boc, env, fork>>

LbCloseAll ==
    /\ Idle
    /\ lb.inited
    /\ lb' = close_all(lb)
    /\ ret' = Ok(<<>>)
    /\ op' = [name |-> "close_all", returned |-> TRUE, args |-> <<>>]
    /\ UNCHANGED <<cell, other, builder, slice, boc, env, fork>>

\* one turn of the task made by spawn_health_checker
HealthChecker ==
    /\ lb.checker_handle # None
    /\ lb' = [lb EXCEPT !.checker_handle = Some(health_checker_step(@[1]))]
    /\ UNCHANGED <<cell, other, builder, slice, boc, ret, op, env, fork>>

\* a request method is called: get_masterchain_info stands for the methods
\* with one retry loop, send_message has k rounds of it
LbCall ==
    /\ Idle
    /\ TotalRequests(lb) < MaxRequests
    /\ \E name \in RequestMethods :
          op' = [name |-> name, returned |-> FALSE, args |-> [before |-> lb],
                 pc |-> "loop", attempt |-> 0, round |-> 0, peer |-> 0, any_ok |-> FALSE,
                 answer |-> "none",
                 rounds |-> IF name = "send_message"
                            THEN LET alive_count == Cardinality(lb.alive_peers)
                                     k == IF alive_count < 12 THEN 4 ELSE alive_count \div 3
                                 IN IF k <= lb.peers THEN k ELSE lb.peers
                            ELSE 1]
    /\ UNCHANGED <<cell, other, builder, slice, boc, ret, env, fork, lb>>

\* the call returns r
LbReturn(o, r) ==
    /\ ret' = r
    /\ op' = [o EXCEPT !.returned = TRUE, !.pc = "done"]

\* the head of the retry loop: the loop is over, or execute_request runs
LbExecuteRequest ==
    /\ ~op.returned /\ op.pc = "loop"
    /\ IF op.attempt >= lb.max_retries
       THEN /\ IF op.name = "send_message" /\ op.round + 1 < op.rounds
               THEN /\ op' = [op EXCEPT !.round = @ + 1, !.attempt = 0]
                    /\ ret' = ret
               ELSE LbReturn(op, IF op.any_ok THEN Ok(<<>>) ELSE Err(Timeout))
            /\ lb' = lb
       ELSE \E peers \in build_priority_list(lb, FALSE) :
               LET r == execute_request(lb, FALSE, peers)
               IN /\ lb' = r.self
                  /\ IF r.ok THEN /\ op' = [op EXCEPT !.pc = "await", !.peer = r.val]
                                  /\ ret' = ret
                     ELSE LbReturn(op, Err(r.err))
    /\ UNCHANGED <<cell, other, builder, slice, boc, env, fork>>

\* the peer answers and complete_request runs
LbCompleteRequest ==
    /\ ~op.returned /\ op.pc = "await"
    /\ \E answer \in Answers(op.peer), elapsed \in ElapsedMs :
          LET answered == [op EXCEPT !.answer = answer]
          IN /\ lb' = complete_request(lb, op.peer, elapsed, answer = "response")
             /\ IF op.name = "send_message"
                THEN /\ op' = [answered EXCEPT !.pc = "loop",
                                               !.any_ok = @ \/ answer = "response",
                                               !.attempt = IF answer = "adnl_error" THEN @ + 1
                                                           ELSE lb.max_retries]
                     /\ ret' = ret
                ELSE IF answer = "response" THEN LbReturn(answered, Ok(<<>>))
                ELSE IF answer = "server_error" THEN LbReturn(answered, Err(LiteErrorKind))
                ELSE /\ op' = [answered EXCEPT !.pc = "loop", !.attempt = @ + 1]
                     /\ ret' = ret
    /\ UNCHANGED <<cell, other, builder, slice, boc, env, fork>>

NextBalancer ==
    \/ PeerHealth
    \/ LbStartUp
    \/ LbCloseAll
    \/ HealthChecker
    \/ LbCall
    \/ LbExecuteRequest
    \/ LbCompleteRequest
SpecBalancer == InitBalancer /\ [][NextBalancer]_vars

\* C26: execute_request adds one to the current_requests of the chosen peer,
\* complete_request subtracts one without going below zero, a failed
\* completion also removes that peer from the alive set, and after a request
\* method returns, with Ok or with any error and after any number of
\* retries, every peer's current_requests equals its value before the call.
C26_RequestsBalanced ==
    [][/\ (~op.returned /\ op.pc = "loop" /\ op'.pc = "await") =>
             \A p \in BalancerPeers :
                 current_of(lb', p) = current_of(lb, p) + (IF p = op'.peer THEN 1 ELSE 0)
       /\ (~op.returned /\ op.pc = "await" /\ op'.pc # "await") =>
             /\ \A p \in BalancerPeers :
                   current_of(lb', p) =
                       IF p = op.peer THEN sat_sub(current_of(lb, p), 1) ELSE current_of(lb, p)
             /\ op'.answer # "response" => op.peer \notin lb'.alive_peers
             /\ op'.answer = "response" => lb'.alive_peers = lb.alive_peers
       /\ (~op.returned /\ op'.returned) =>
             \A p \in BalancerPeers :
                 current_of(lb', p) = current_of(op.args.before, p)]_vars

\* get_masterchain_info returned Timeout after two attempts that both ended
\* in a connection error: both peers were counted and released, and both
\* left the alive set
C26_Witness ==
    /\ op.name = "get_masterchain_info"
    /\ op.returned
    /\ ret = Err(Timeout)
    /\ op.attempt = 2
    /\ op.args.before.alive_peers = BalancerPeers
    /\ lb.alive_peers = {}
    /\ \A p \in BalancerPeers : p \in DOMAIN lb.peer_stats /\ lb.peer_stats[p].total_requests >= 1

\* C30: in every state reached after start_up through any sequence of
\* requests and failures, archival_peers is a subset of alive_peers, so that
\* choose_peer(true) never returns a peer that has left the alive set.
C30_ArchivalWithinAlive ==
    lb.inited =>
        /\ lb.archival_peers \subseteq lb.alive_peers
        /\ \A peers \in build_priority_list(lb, TRUE) :
              choose_peer(lb, TRUE, peers).ok => choose_peer(lb, TRUE, peers).val \in lb.alive_peers

\* The health checker task is a loop without an exit: once spawned it keeps
\* taking turns until close_all aborts it.
SpecBalancerLive == SpecBalancer /\ WF_vars(HealthChecker)

\* C21: after start_up, a peer that left the alive set because a request to
\* it failed is eventually put back once it is healthy again: from every
\* state of a started balancer in which a healthy peer is not alive, a state
\* is reached in which the peer is alive again (or it stopped being healthy,
\* or the balancer was closed).
C21_RemovedPeerComesBack ==
    \A p \in BalancerPeers :
        (lb.inited /\ p \notin lb.alive_peers /\ p \in env.healthy)
            ~> (p \in lb.alive_peers \/ p \notin env.healthy \/ ~lb.inited)

\* ------------------------------------------ choose_peer (SpecChoose)
\* choose_peer is called on a balancer whose sets and statistics were filled
\* in directly, the way the tests of the module do (test_choose_peer_with_load,
\* test_build_priority_list_sorting): any alive set, some archival sets, and
\* for each peer no statistics or statistics drawn from ChooseStats.
ChoosePeers == {0, 1, 2}
ChooseStats ==
    {[mc_block_seqno |-> s, avg_response_time_ms |-> t, total_requests |-> 1,
      current_requests |-> c] : s \in {100, 101}, t \in {50, 60}, c \in {2, 10}}
ChooseLimits == {1, 5}
ChooseArchives == {{}, {0}, {1, 2}}
ChooseBalancers ==
    {[LiteBalancer_new(Cardinality(ChoosePeers), 100)
        EXCEPT !.alive_peers = alive, !.archival_peers = archival, !.peer_stats = stats,
               !.max_req_per_peer = limit, !.inited = TRUE] :
        alive \in SUBSET ChoosePeers, archival \in ChooseArchives, limit \in ChooseLimits,
        stats \in UNION {[known -> ChooseStats] : known \in SUBSET ChoosePeers}}

InitChoose ==
    /\ cell = Cell_new
    /\ other = Cell_new
    /\ builder = CellBuilder_new
    /\ slice = Slice_new(Cell_new)
    /\ boc = <<>>
    /\ fork = None
    /\ lb \in ChooseBalancers
    /\ ret = Ok(<<>>)
    /\ op = NoOp
    /\ env = DefaultEnv

ChoosePeer ==
    /\ op = NoOp
    /\ \E only_archive \in BOOLEAN : \E peers \in build_priority_list(lb, only_archive) :
          /\ ret' = choose_peer(lb, only_archive, peers)
          /\ op' = [name |-> "choose_peer", returned |-> TRUE,
                    args |-> [only_archive |-> only_archive]]
    /\ UNCHANGED <<cell, other, builder, slice, boc, env, fork, lb>>

NextChoose == ChoosePeer
SpecChoose == InitChoose /\ [][NextChoose]_vars

\* C25: choose_peer(only_archive) returns NoAlivePeers (NoArchivePeers when
\* only_archive) exactly when the candidate set is empty; otherwise it
\* returns the first candidate, in the order descending mc_block_seqno then
\* ascending average response time, whose current_requests is within
\* max_req_per_peer (no candidate within the limit comes before it in that
\* order), and when every candidate is above the limit it returns a
\* candidate with the minimum current_requests.
C25_ChoosePeer ==
    op.name = "choose_peer" =>
        LET candidates == IF op.args.only_archive THEN lb.archival_peers ELSE lb.alive_peers
            Stat(p, field, default) ==
                IF p \in DOMAIN lb.peer_stats THEN lb.peer_stats[p][field] ELSE default
            Load(p) == Stat(p, "current_requests", 0)
            Before(p, q) ==
                \/ Stat(p, "mc_block_seqno", 0) > Stat(q, "mc_block_seqno", 0)
                \/ /\ Stat(p, "mc_block_seqno", 0) = Stat(q, "mc_block_seqno", 0)
                   /\ Stat(p, "avg_response_time_ms", lb.timeout)
                        < Stat(q, "avg_response_time_ms", lb.timeout)
            within == {p \in candidates : Load(p) <= lb.max_req_per_peer}
        IN /\ ~ret.ok <=> candidates = {}
           /\ ~ret.ok =>
                 ret.err = (IF op.args.only_archive THEN NoArchivePeers ELSE NoAlivePeers)
           /\ (ret.ok /\ within # {}) =>
                 /\ ret.val \in within
                 /\ \A q \in within : ~Before(q, ret.val)
           /\ (ret.ok /\ within = {}) =>
                 /\ ret.val \in candidates
                 /\ \A q \in candidates : Load(ret.val) <= Load(q)

\* the peer with the highest seqno was over the limit and the call returned
\* the next one in the order that was within it
C25_Witness ==
    /\ op.name = "choose_peer"
    /\ ~op.args.only_archive
    /\ lb.alive_peers = ChoosePeers
    /\ lb.max_req_per_peer = 5
    /\ lb.peer_stats = (0 :> [mc_block_seqno |-> 101, avg_response_time_ms |-> 50,
                              total_requests |-> 1, current_requests |-> 10]
                        @@ 1 :> [mc_block_seqno |-> 100, avg_response_time_ms |-> 60,
                                 total_requests |-> 1, current_requests |-> 2]
                        @@ 2 :> [mc_block_seqno |-> 100, avg_response_time_ms |-> 50,
                                 total_requests |-> 1, current_requests |-> 2])
    /\ ret = Ok(2)
====
